---- MODULE Spec2Model ----
(***************************************************************************)
(* Model of the greedy multi-phase timetable scheduler                     *)
(* (src/src/scheduler/timetable_scheduler.py, class TimetableScheduler).   *)
(*                                                                         *)
(* Representation of the Python values:                                    *)
(*   - a clock time "HH:MM" is the pair <<h, m>>; a slot label            *)
(*     "HH:MM-HH:MM" is the pair of its two clock times;                   *)
(*   - a cell holding a number is <<n>> when int() accepts it and <<>>     *)
(*     when int() raises;                                                  *)
(*   - an LTPSC cell is the sequence of its "-"-separated fields;          *)
(*   - str(int(sem)) is injective, the semester key is kept as the integer.*)
(***************************************************************************)
EXTENDS Integers, Sequences, FiniteSets, TLC

\* ------------------------------------------------------------------ bounds
\* Largest number of rows in the course table handed to generate_all.
MaxCourses == 2

\* ------------------------------------------------------------ time helpers
time_to_min(t) == t[1] * 60 + t[2]

slot_to_range(slot) == <<time_to_min(slot[1]), time_to_min(slot[2])>>
\* faulty variant of ranges_overlap: ranges that only touch count as overlapping
ranges_overlap_closed(a, b) == ~(a[2] < b[1] \/ b[2] < a[1])

ranges_overlap(a, b) == ~(a[2] <= b[1] \/ b[2] <= a[1])

\* ------------------------------------------------------------ configuration
\* The sentinels of an unplaced result row.
UNSCHEDULED == "UNSCHEDULED"
\* "N/A" in the Slot column has the shape of a slot label, in the Room column
\* that of a room name.
NASlot == << <<0, 0>>, <<0, 0>> >>
NA == "N/A"
\* None, as returned by _choose_room_for_session.
NoRoom == [name |-> "None", capacity |-> 0, type |-> "None"]

\* self.durations
durations == [Lecture |-> 90, Tutorial |-> 60, Lab |-> 120]
\* the tolerance of the duration checks, abs(len - expected) > 5
DurationTolerance == 5
\* the sort key of a day or slot that is not in day_index / slot_index
SortSentinel == 999
\* the room generate_all substitutes for an empty room table
DefaultRoom == [name |-> "C004", capacity |-> 300, type |-> "Classroom"]

\* Configurations handed to the constructor: the week is cut down to two
\* working days and the pools to the first slots of get_active_config().
Configs ==
  { [ working_days   |-> <<"Monday", "Tuesday">>,
      lecture_slots  |-> << <<<<9, 0>>, <<10, 30>>>>, <<<<10, 45>>, <<12, 15>>>> >>,
      tutorial_slots |-> << <<<<12, 15>>, <<13, 15>>>> >>,
      lab_slots      |-> << <<<<9, 0>>, <<11, 0>>>>, <<<<11, 0>>, <<13, 0>>>> >>,
      minor_slots    |-> << <<<<7, 30>>, <<9, 0>>>>, <<<<18, 30>>, <<20, 0>>>> >> ] }

AllDays == UNION { {c.working_days[i] : i \in 1..Len(c.working_days)} : c \in Configs }

\* ------------------------------------------------------- sequence helpers
Range(s) == { s[i] : i \in 1..Len(s) }

\* all orders random.shuffle can leave a list in
Perms(s) ==
  { p \in [1..Len(s) -> Range(s)] :
      \A i, j \in 1..Len(s) : i # j => p[i] # p[j] }

RemoveAt(s, i) == SubSeq(s, 1, i - 1) \o SubSeq(s, i + 1, Len(s))

RECURSIVE Repeat(_, _)
Repeat(x, n) == IF n <= 0 THEN <<>> ELSE <<x>> \o Repeat(x, n - 1)

RECURSIVE ConcatAll(_)
ConcatAll(ss) == IF ss = <<>> THEN <<>> ELSE Head(ss) \o ConcatAll(Tail(ss))

RECURSIVE SortedSeq(_)
\* sorted(S) for a set of integers
SortedSeq(S) ==
  IF S = {} THEN <<>>
  ELSE LET m == CHOOSE x \in S : \A y \in S : x <= y
       IN  <<m>> \o SortedSeq(S \ {m})

\* faulty variant of FirstTrue: the scan does not stop at the first TRUE, the
\* last one wins
FirstTrue_taking_last(flags, k) ==
  IF \E i \in k..Len(flags) : flags[i]
  THEN CHOOSE i \in k..Len(flags) : flags[i] /\ \A j \in (i + 1)..Len(flags) : ~flags[j]
  ELSE 0

RECURSIVE FirstTrue(_, _)
\* index of the first TRUE of flags at or after k, 0 when the scan runs out
FirstTrue(flags, k) ==
  IF k > Len(flags) THEN 0
  ELSE IF flags[k] THEN k
  ELSE FirstTrue(flags, k + 1)
\* faulty variant of CeilDiv: the quotient is rounded down
CeilDiv_floor(a, b) == a \div b

CeilDiv(a, b) == (a + b - 1) \div b

Max(a, b) == IF a >= b THEN a ELSE b

Abs(x) == IF x < 0 THEN -x ELSE x

\* ------------------------------------------------- normalization / helpers
\* _to_int: int(float(v)), the default when it raises
_to_int(v, default) == IF Len(v) = 1 THEN v[1] ELSE default

\* str(x).strip() on the names the inputs use
Stripped == [x \in {" F1"} |-> "F1"]
strip(x) == IF x \in DOMAIN Stripped THEN Stripped[x] ELSE x

\* "lab" in r["type"].lower(), on the room kinds the inputs use
LabTypeNames == {"Lab", "Software Lab", "lab"}
is_lab_type(typ) == typ \in LabTypeNames

\* str(Type).strip().lower() on the categories the inputs use
Type_norm(t) ==
  IF t \in {"Elective", "elective"} THEN "elective"
  ELSE IF t \in {"Minor", "minor"} THEN "minor"
  ELSE IF t = "Core" THEN "core"
  ELSE t

\* normalize_dept, on the department names the inputs use
normalize_dept(raw) ==
  IF raw \in {"CSE", "cse"} THEN "CSE"
  ELSE IF raw \in {"DSAI"} THEN "DSAI"
  ELSE IF raw \in {"ECE"} THEN "ECE"
  ELSE IF raw = "" THEN "UNKNOWN"
  ELSE raw

\* sorted() of the canonical department names
DeptOrder == <<"ALL", "CSE", "DSAI", "ECE", "UNKNOWN">>

_normalize_classrooms(classrooms_list) ==
  [ i \in 1..Len(classrooms_list) |->
      LET r == classrooms_list[i]
      IN  [ name     |-> strip(r.name),
            capacity |-> _to_int(r.capacity, 0),
            type     |-> IF r.type = "" THEN "Classroom" ELSE r.type ] ]

\* _parse_ltpsc: the fields are padded with "0" to five; any of the first five
\* that int() rejects makes all three hours 0.
_parse_ltpsc(ltpsc) ==
  LET parts == ltpsc \o Repeat(<<0>>, 5 - Len(ltpsc))
  IN  IF \E i \in 1..5 : Len(parts[i]) # 1
      THEN <<0, 0, 0>>
      ELSE <<parts[1][1], parts[2][1], parts[3][1]>>

_slots_needed(L_hours, T_hours, P_hours) ==
  << IF L_hours > 0 THEN CeilDiv(L_hours * 60, durations.Lecture) ELSE 0,
     IF T_hours > 0 THEN CeilDiv(T_hours * 60, durations.Tutorial) ELSE 0,
     IF P_hours > 0 THEN CeilDiv(P_hours * 60, durations.Lab) ELSE 0 >>

\* ---------------------------------------------------------- booking helpers
_init_bookings(days, rooms) ==
  [ bookings    |-> [d \in Range(days) |-> <<>>],
    rooms_state |-> [n \in {rooms[i].name : i \in 1..Len(rooms)} |-> <<>>] ]
\* faulty variant of _room_free: a room is taken to be free whatever it holds
_room_free_always(room_bookings_for_day, cand_range) == TRUE

_room_free(room_bookings_for_day, cand_range) ==
  \A i \in 1..Len(room_bookings_for_day) :
     ~ranges_overlap(room_bookings_for_day[i].range, cand_range)
\* faulty variant of _faculty_free: a member of staff is taken to be free at any time
_faculty_free_always(bookings_for_day, fac, cand_range) == TRUE

_faculty_free(bookings_for_day, fac, cand_range) ==
  \/ fac = ""
  \/ \A i \in 1..Len(bookings_for_day) :
        ~(bookings_for_day[i].faculty = fac
          /\ ranges_overlap(bookings_for_day[i].range, cand_range))
\* faulty variant of _students_free: a cohort is taken to be free at any time
_students_free_always(student_bookings_for_day, cand_range) == TRUE

_students_free(student_bookings_for_day, cand_range) ==
  \A i \in 1..Len(student_bookings_for_day) :
     ~ranges_overlap(student_bookings_for_day[i], cand_range)

\* rooms_state.get(name, [])
RoomBookings(rs, name) == IF name \in DOMAIN rs THEN rs[name] ELSE <<>>

RECURSIVE InsertByCapacity(_, _)
InsertByCapacity(sorted, r) ==
  IF sorted = <<>> THEN <<r>>
  ELSE IF r.capacity < Head(sorted).capacity THEN <<r>> \o sorted
  ELSE <<Head(sorted)>> \o InsertByCapacity(Tail(sorted), r)
\* faulty variant of the capacity sort: the candidates stay in catalog order
SortByCapacity_unsorted(rooms) == rooms

RECURSIVE SortByCapacity(_)
\* candidates.sort(key=capacity): stable, equal capacities keep their order
SortByCapacity(rooms) ==
  IF rooms = <<>> THEN <<>>
  ELSE InsertByCapacity(SortByCapacity(SubSeq(rooms, 1, Len(rooms) - 1)),
                        rooms[Len(rooms)])
\* Room.is_suitable_for: capacity and type compatibility of a room with a
\* course type; only a course type containing "lab" asks for a lab room
is_suitable_for(room, course_type, strength) ==
  IF room.capacity < strength THEN FALSE
  ELSE IF is_lab_type(course_type) /\ ~is_lab_type(room.type) THEN FALSE
  ELSE TRUE

\* faulty variant of _choose_room_for_session: the lab-typed rooms are kept
\* for lab requests; a request of another kind is not given one
_choose_room_keeping_labs_apart(rooms, rs, day, cand_range, is_lab, strength, rooms_already_used) ==
  LET free(r) ==
        _room_free(SelectSeq(RoomBookings(rs, r.name), LAMBDA b : b.day = day),
                   cand_range)
      first_pass(r) ==
        /\ r.name \notin rooms_already_used
        /\ ~(r.capacity < strength)
        /\ is_lab = is_lab_type(r.type)
        /\ free(r)
      fallback(r) ==
        /\ r.name \notin rooms_already_used
        /\ ~(r.capacity < strength)
        /\ free(r)
      typed == SelectSeq(rooms, first_pass)
      candidates ==
        IF typed = <<>> /\ is_lab THEN SelectSeq(rooms, fallback) ELSE typed
  IN  IF candidates = <<>> THEN NoRoom ELSE Head(SortByCapacity(candidates))

\* faulty variant of _choose_room_for_session: the capacity of the room is
\* not compared with the strength
_choose_room_of_any_capacity(rooms, rs, day, cand_range, is_lab, strength, rooms_already_used) ==
  LET free(r) ==
        _room_free(SelectSeq(RoomBookings(rs, r.name), LAMBDA b : b.day = day),
                   cand_range)
      first_pass(r) ==
        /\ r.name \notin rooms_already_used
        /\ ~(is_lab /\ ~is_lab_type(r.type))
        /\ free(r)
      fallback(r) ==
        /\ r.name \notin rooms_already_used
        /\ free(r)
      typed == SelectSeq(rooms, first_pass)
      candidates ==
        IF typed = <<>> /\ is_lab THEN SelectSeq(rooms, fallback) ELSE typed
  IN  IF candidates = <<>> THEN NoRoom ELSE Head(SortByCapacity(candidates))

\* faulty variant of _choose_room_for_session: the type of the room is not
\* looked at, a lab request is served like any other
_choose_room_ignoring_type(rooms, rs, day, cand_range, is_lab, strength, rooms_already_used) ==
  LET free(r) ==
        _room_free(SelectSeq(RoomBookings(rs, r.name), LAMBDA b : b.day = day),
                   cand_range)
      fallback(r) ==
        /\ r.name \notin rooms_already_used
        /\ ~(r.capacity < strength)
        /\ free(r)
      candidates == SelectSeq(rooms, fallback)
  IN  IF candidates = <<>> THEN NoRoom ELSE Head(SortByCapacity(candidates))

\* faulty variant of _choose_room_for_session: a lab request that finds no
\* lab-typed room is not retried over the rooms of other types
_choose_room_without_fallback(rooms, rs, day, cand_range, is_lab, strength, rooms_already_used) ==
  LET free(r) ==
        _room_free(SelectSeq(RoomBookings(rs, r.name), LAMBDA b : b.day = day),
                   cand_range)
      first_pass(r) ==
        /\ r.name \notin rooms_already_used
        /\ ~(r.capacity < strength)
        /\ ~(is_lab /\ ~is_lab_type(r.type))
        /\ free(r)
      candidates == SelectSeq(rooms, first_pass)
  IN  IF candidates = <<>> THEN NoRoom ELSE Head(SortByCapacity(candidates))

_choose_room_for_session(rooms, rs, day, cand_range, is_lab, strength, rooms_already_used) ==
  LET free(r) ==
        _room_free(SelectSeq(RoomBookings(rs, r.name), LAMBDA b : b.day = day),
                   cand_range)
      first_pass(r) ==
        /\ r.name \notin rooms_already_used
        /\ ~(r.capacity < strength)
        /\ ~(is_lab /\ ~is_lab_type(r.type))
        /\ free(r)
      fallback(r) ==
        /\ r.name \notin rooms_already_used
        /\ ~(r.capacity < strength)
        /\ free(r)
      typed == SelectSeq(rooms, first_pass)
      candidates ==
        IF typed = <<>> /\ is_lab THEN SelectSeq(rooms, fallback) ELSE typed
  IN  IF candidates = <<>> THEN NoRoom ELSE Head(SortByCapacity(candidates))
\* faulty variant of _add_booking: the entry is not put into the room's list
_add_booking_without_room_index(bk, rs, day, slot, rng, room_name, faculty, branch, sem, course, session_type) ==
  LET entry == [ slot |-> slot, range |-> rng, room |-> room_name,
                 faculty |-> faculty, branch |-> branch, sem |-> sem,
                 course |-> course, type |-> session_type, day |-> day ]
  IN  [ bookings    |-> [bk EXCEPT ![day] = Append(@, entry)],
        rooms_state |-> rs ]

\* faulty variant of _add_booking: the new entry replaces the day's list
_add_booking_replacing(bk, rs, day, slot, rng, room_name, faculty, branch, sem, course, session_type) ==
  LET entry == [ slot |-> slot, range |-> rng, room |-> room_name,
                 faculty |-> faculty, branch |-> branch, sem |-> sem,
                 course |-> course, type |-> session_type, day |-> day ]
  IN  [ bookings    |-> [bk EXCEPT ![day] = <<entry>>],
        rooms_state |-> [n \in DOMAIN rs \cup {room_name} |->
                           IF n = room_name THEN <<entry>> ELSE rs[n]] ]

_add_booking(bk, rs, day, slot, rng, room_name, faculty, branch, sem, course, session_type) ==
  LET entry == [ slot |-> slot, range |-> rng, room |-> room_name,
                 faculty |-> faculty, branch |-> branch, sem |-> sem,
                 course |-> course, type |-> session_type, day |-> day ]
  IN  [ bookings    |-> [bk EXCEPT ![day] = Append(@, entry)],
        rooms_state |-> [n \in DOMAIN rs \cup {room_name} |->
                           IF n = room_name
                           THEN Append(RoomBookings(rs, n), entry)
                           ELSE rs[n]] ]
\* faulty variant of _same_course_same_day_conflict: no conflict is ever reported
_same_course_same_day_conflict_never(bk, day, branch, sem, code, session_type) == FALSE

\* faulty variant of _same_course_same_day_conflict: any session of the course
\* on the day is a conflict, for a session of any type
_same_course_same_day_conflict_any_type(bk, day, branch, sem, code, session_type) ==
  \E i \in 1..Len(bk[day]) :
    bk[day][i].branch = branch /\ bk[day][i].sem = sem /\ bk[day][i].course = code

_same_course_same_day_conflict(bk, day, branch, sem, code, session_type) ==
  LET todays == SelectSeq(bk[day], LAMBDA b :
                   b.branch = branch /\ b.sem = sem /\ b.course = code)
  IN  IF session_type = "Lecture"
      THEN \E i \in 1..Len(todays) : todays[i].type = "Lecture"
      ELSE FALSE

\* -------------------------------------------------------------- the state
VARIABLES
  pc,                  \* position of generate_all
  config,              \* the configuration the scheduler was constructed with
  classrooms,          \* the normalized room catalog of the run
  bookings,            \* day -> list of booking entries
  rooms_state,         \* room name -> list of booking entries
  student_bookings,    \* <<branch, sem>> -> day -> list of ranges
  course_day_presence, \* set of <<branch, sem, day, code>>
  result,              \* <<branch, sem>> -> final list of result rows
  todo,                \* the (branch, sem, rows) still to schedule, current first
  timetable_rows,      \* result rows of the current branch/semester
  work,                \* the sessions the current loop has still to visit
  idx,                 \* the index i (j) of the grouped elective loops
  placed_rows,         \* _salvage_unscheduled: placed_rows
  still_unscheduled,   \* _salvage_unscheduled: still_unscheduled
  rooms_given,         \* the room table generate_all was called with
  courses_given,       \* the course table generate_all was called with
  last_choice,         \* the last allocator request and its answer (SpecRoom)
  last_call            \* the last call of a helper function and its value

vars == << pc, config, classrooms, bookings, rooms_state, student_bookings,
           course_day_presence, result, todo, timetable_rows, work, idx,
           placed_rows, still_unscheduled, rooms_given, courses_given,
           last_choice, last_call >>

ledger_vars == << bookings, rooms_state, student_bookings, course_day_presence >>

\* ------------------------------------------------------- the current cohort
branch_name == Head(todo).branch
sem == Head(todo).sem
branch_df == Head(todo).rows

row_type(r) == Type_norm(r.Type)
electives == SelectSeq(branch_df, LAMBDA r : row_type(r) = "elective")
\* faulty variant of minors: a minor row is taken once per lecture session
\* that the expander derives from its hours
minors_per_lecture ==
  LET rows == SelectSeq(branch_df, LAMBDA r : row_type(r) = "minor")
  IN  ConcatAll([ i \in 1..Len(rows) |->
        Repeat(rows[i],
               LET h == _parse_ltpsc(rows[i].LTPSC)
               IN  _slots_needed(h[1], h[2], h[3])[1]) ])
minors == SelectSeq(branch_df, LAMBDA r : row_type(r) = "minor")
cores == SelectSeq(branch_df, LAMBDA r : row_type(r) \notin {"elective", "minor"})

\* the session record the phases build from a course row
session_of(r) ==
  [ code |-> r.Code, faculty |-> strip(r.Faculty), strength |-> _to_int(r.Strength, 0) ]

\* one result row; Course is the description "<code> - <title> (<label>)"
\* kept as its code, its label and the index an elective label carries
Row(day, slot, sess, label, n, session_type, faculty, room) ==
  [ Day |-> day, Slot |-> slot,
    Course |-> [code |-> sess.code, label |-> label, n |-> n],
    Faculty |-> faculty, Room |-> room, code |-> sess.code,
    session_type |-> session_type, strength |-> sess.strength ]

RECURSIVE sessions_of(_, _)
sessions_of(rows, k) ==
  LET expand(r) == Repeat(session_of(r),
                          LET h == _parse_ltpsc(r.LTPSC)
                          IN  _slots_needed(h[1], h[2], h[3])[k])
  IN  IF rows = <<>> THEN <<>>
      ELSE expand(Head(rows)) \o sessions_of(Tail(rows), k)

core_lectures == sessions_of(cores, 1)
core_tutorials == sessions_of(cores, 2)
core_lab_rows == sessions_of(cores, 3)

elective_info ==
  [ i \in 1..Len(electives) |->
     LET h == _parse_ltpsc(electives[i].LTPSC)
         n == _slots_needed(h[1], h[2], 0)
     IN  [ code |-> electives[i].Code, faculty |-> strip(electives[i].Faculty),
           strength |-> _to_int(electives[i].Strength, 0),
           L_slots |-> n[1], T_slots |-> n[2] ] ]

RECURSIVE MaxOf(_, _)
MaxOf(s, f) == IF s = <<>> THEN 0 ELSE Max(Head(s)[f], MaxOf(Tail(s), f))

maxLslots == MaxOf(elective_info, "L_slots")
maxTslots == MaxOf(elective_info, "T_slots")

\* faulty variant of Candidates: the slots are the outer loop, the days the inner
Candidates_slots_first(days, slots) ==
  [ k \in 1..(Len(days) * Len(slots)) |->
      << days[((k - 1) % Len(days)) + 1], slots[((k - 1) \div Len(days)) + 1] >> ]

\* for day in days: for slot in slots
Candidates(days, slots) ==
  [ k \in 1..(Len(days) * Len(slots)) |->
      << days[((k - 1) \div Len(slots)) + 1], slots[((k - 1) % Len(slots)) + 1] >> ]

\* for minor_slot in minor_slots: days_shuf = shuffle; for day in days_shuf
MinorCandidates(shuffles, slots, nd) ==
  [ k \in 1..(Len(slots) * nd) |->
      << shuffles[((k - 1) \div nd) + 1][((k - 1) % nd) + 1],
         slots[((k - 1) \div nd) + 1] >> ]

cohort_days == student_bookings[<<branch_name, sem>>]
\* faulty variant of duration_ok: every slot length is accepted
duration_ok_always(rng, expected) == TRUE

\* ------------------------------------------- one (day, slot) of each search
duration_ok(rng, expected) == ~(Abs((rng[2] - rng[1]) - expected) > DurationTolerance)

\* the body of the phase-1 scan: the room committed at (day, slot), or NoRoom
CoreLabTry(lab, day, slot) ==
  LET rng == slot_to_range(slot)
  IN  IF ~duration_ok(rng, durations.Lab) THEN NoRoom
      ELSE IF ~_students_free(cohort_days[day], rng) THEN NoRoom
      ELSE IF ~_faculty_free(bookings[day], lab.faculty, rng) THEN NoRoom
      ELSE _choose_room_for_session(classrooms, rooms_state, day, rng, TRUE, lab.strength, {})

\* faulty variant of CoreLectureTry: the same-day check is left out
CoreLectureTry_any_day(lec, day, slot) ==
  LET rng == slot_to_range(slot)
  IN  IF ~duration_ok(rng, durations.Lecture) THEN NoRoom
      ELSE IF ~_students_free(cohort_days[day], rng) THEN NoRoom
      ELSE IF ~_faculty_free(bookings[day], lec.faculty, rng) THEN NoRoom
      ELSE _choose_room_for_session(classrooms, rooms_state, day, rng, FALSE, lec.strength, {})

\* the body of the phase-4 scan
CoreLectureTry(lec, day, slot) ==
  LET rng == slot_to_range(slot)
  IN  IF ~duration_ok(rng, durations.Lecture) THEN NoRoom
      ELSE IF ~_students_free(cohort_days[day], rng) THEN NoRoom
      ELSE IF _same_course_same_day_conflict(bookings, day, branch_name, sem, lec.code, "Lecture")
           THEN NoRoom
      ELSE IF ~_faculty_free(bookings[day], lec.faculty, rng) THEN NoRoom
      ELSE _choose_room_for_session(classrooms, rooms_state, day, rng, FALSE, lec.strength, {})

\* the body of the phase-5 scan
CoreTutorialTry(tut, day, slot) ==
  LET rng == slot_to_range(slot)
  IN  IF ~duration_ok(rng, durations.Tutorial) THEN NoRoom
      ELSE IF ~_students_free(cohort_days[day], rng) THEN NoRoom
      ELSE IF ~_faculty_free(bookings[day], tut.faculty, rng) THEN NoRoom
      ELSE _choose_room_for_session(classrooms, rooms_state, day, rng, FALSE, tut.strength, {})

\* faulty variant of pool_map: the pass looks for a minor in the lecture pool
pool_map_minor_in_lectures(session_type) ==
  IF session_type = "Lecture" THEN <<config.lecture_slots, durations.Lecture>>
  ELSE IF session_type = "Tutorial" THEN <<config.tutorial_slots, durations.Tutorial>>
  ELSE IF session_type = "Lab" THEN <<config.lab_slots, durations.Lab>>
  ELSE IF session_type = "Minor" THEN <<config.lecture_slots, -1>>
  ELSE << <<>>, -1 >>

\* pool_map of _salvage_unscheduled; the expected duration None is -1
pool_map(session_type) ==
  IF session_type = "Lecture" THEN <<config.lecture_slots, durations.Lecture>>
  ELSE IF session_type = "Tutorial" THEN <<config.tutorial_slots, durations.Tutorial>>
  ELSE IF session_type = "Lab" THEN <<config.lab_slots, durations.Lab>>
  ELSE IF session_type = "Minor" THEN <<config.minor_slots, -1>>
  ELSE << <<>>, -1 >>

\* faulty variant of SalvageTry: the scan leaves the cohort check out
SalvageTry_without_cohort_check(s, day, slot) ==
  LET rng == slot_to_range(slot)
      expected_dur == pool_map(s.session_type)[2]
  IN  IF expected_dur # -1 /\ ~duration_ok(rng, expected_dur) THEN NoRoom
      ELSE IF _same_course_same_day_conflict(bookings, day, branch_name, sem, s.code, s.session_type)
           THEN NoRoom
      ELSE IF ~_faculty_free(bookings[day], s.faculty, rng) THEN NoRoom
      ELSE _choose_room_for_session(classrooms, rooms_state, day, rng,
                                    s.session_type = "Lab", s.strength, {})

\* faulty variant of SalvageTry: the scan leaves the same-day check out
SalvageTry_without_same_day(s, day, slot) ==
  LET rng == slot_to_range(slot)
      expected_dur == pool_map(s.session_type)[2]
  IN  IF expected_dur # -1 /\ ~duration_ok(rng, expected_dur) THEN NoRoom
      ELSE IF ~_students_free(cohort_days[day], rng) THEN NoRoom
      ELSE IF ~_faculty_free(bookings[day], s.faculty, rng) THEN NoRoom
      ELSE _choose_room_for_session(classrooms, rooms_state, day, rng,
                                    s.session_type = "Lab", s.strength, {})

\* the body of the salvage scan
SalvageTry(s, day, slot) ==
  LET rng == slot_to_range(slot)
      expected_dur == pool_map(s.session_type)[2]
  IN  IF expected_dur # -1 /\ ~duration_ok(rng, expected_dur) THEN NoRoom
      ELSE IF ~_students_free(cohort_days[day], rng) THEN NoRoom
      ELSE IF _same_course_same_day_conflict(bookings, day, branch_name, sem, s.code, s.session_type)
           THEN NoRoom
      ELSE IF ~_faculty_free(bookings[day], s.faculty, rng) THEN NoRoom
      ELSE _choose_room_for_session(classrooms, rooms_state, day, rng,
                                    s.session_type = "Lab", s.strength, {})

RECURSIVE GroupAssign(_, _, _, _, _, _)
\* the loop "for e in needs" of a grouped attempt: the rooms of local_assign,
\* or conflict. same_day is TRUE where the loop makes the same-day check
\* (elective lectures only).
GroupAssign(needs, day, rng, same_day, rooms_used_now, local_assign) ==
  IF needs = <<>> THEN [conflict |-> FALSE, local_assign |-> local_assign]
  ELSE
    LET e == Head(needs)
        room == _choose_room_for_session(classrooms, rooms_state, day, rng, FALSE,
                                         e.strength, rooms_used_now)
    IN  IF same_day /\ _same_course_same_day_conflict(bookings, day, branch_name, sem, e.code, "Lecture")
          THEN [conflict |-> TRUE, local_assign |-> <<>>]
        ELSE IF ~_faculty_free(bookings[day], e.faculty, rng)
          THEN [conflict |-> TRUE, local_assign |-> <<>>]
        ELSE IF room = NoRoom
          THEN [conflict |-> TRUE, local_assign |-> <<>>]
        ELSE GroupAssign(Tail(needs), day, rng, same_day,
                         rooms_used_now \cup {room.name},
                         Append(local_assign, room.name))

\* one candidate (day, slot) of a grouped elective lecture search
ElectiveLectureAttempt(needs, day, slot) ==
  LET rng == slot_to_range(slot)
  IN  IF ~duration_ok(rng, durations.Lecture) \/ ~_students_free(cohort_days[day], rng)
      THEN [conflict |-> TRUE, local_assign |-> <<>>]
      ELSE GroupAssign(needs, day, rng, TRUE, {}, <<>>)

\* one candidate (day, slot) of a grouped elective tutorial search
ElectiveTutorialAttempt(needs, day, slot) ==
  LET rng == slot_to_range(slot)
  IN  IF ~duration_ok(rng, durations.Tutorial) \/ ~_students_free(cohort_days[day], rng)
      THEN [conflict |-> TRUE, local_assign |-> <<>>]
      ELSE GroupAssign(needs, day, rng, FALSE, {}, <<>>)

\* one candidate (minor_slot, day) of the grouped minor search
MinorAttempt(needs, day, slot) ==
  LET rng == slot_to_range(slot)
  IN  IF ~_students_free(cohort_days[day], rng)
      THEN [conflict |-> TRUE, local_assign |-> <<>>]
      ELSE GroupAssign(needs, day, rng, FALSE, {}, <<>>)

\* faulty variant of CommitGroup: a partial write, only the first course of the
\* group is booked
CommitGroup_first_only(led, needs, local_assign, day, slot, session_type) ==
  IF needs = <<>> THEN led
  ELSE _add_booking(led.bookings, led.rooms_state, day, slot, slot_to_range(slot),
                    Head(local_assign), Head(needs).faculty, branch_name, sem,
                    Head(needs).code, session_type)

RECURSIVE CommitGroup(_, _, _, _, _, _)
\* "for e, room_name in local_assign: self._add_booking(...)"
CommitGroup(led, needs, local_assign, day, slot, session_type) ==
  IF needs = <<>> THEN led
  ELSE CommitGroup(
         _add_booking(led.bookings, led.rooms_state, day, slot, slot_to_range(slot),
                      Head(local_assign), Head(needs).faculty, branch_name, sem,
                      Head(needs).code, session_type),
         Tail(needs), Tail(local_assign), day, slot, session_type)

\* student_bookings[branch][sem][day].append(rng)
\* faulty variant of students_append: one list per day for all cohorts
students_append_shared(day, rng) ==
  [ k \in DOMAIN student_bookings |-> [student_bookings[k] EXCEPT ![day] = Append(@, rng)] ]

students_append(day, rng) ==
  [student_bookings EXCEPT ![<<branch_name, sem>>][day] = Append(@, rng)]

presence_add(day, codes) ==
  course_day_presence \cup { <<branch_name, sem, day, c>> : c \in codes }

\* ------------------------------------------------------------ output sorter
\* Python's order of two tuples of one length
tuple_less(a, b) ==
  \E i \in 1..Len(a) : a[i] < b[i] /\ \A j \in 1..(i - 1) : a[j] = b[j]

\* sorted(..., key=...) and list.sort(key=...) are stable: an element goes
\* before another one iff its key is smaller, or the keys tie and it came
\* first. The keys, one tuple per element, are computed once, before.
precedes(keys, j, i) ==
  tuple_less(keys[j], keys[i]) \/ (~tuple_less(keys[i], keys[j]) /\ j < i)

position(keys, i) ==
  1 + Cardinality({ j \in 1..Len(keys) : precedes(keys, j, i) })

stable_sorted(xs, keys) ==
  CHOOSE out \in { [p \in 1..Len(xs) |-> xs[CHOOSE i \in 1..Len(xs) : pos[i] = p]] :
                     pos \in { [i \in 1..Len(keys) |-> position(keys, i)] } } : TRUE

start_minutes(slot) == time_to_min(slot[1])

sorted_by_start(all) ==
  CHOOSE out \in { stable_sorted(all, ks) :
                     ks \in { [i \in 1..Len(all) |-> <<start_minutes(all[i])>>] } } : TRUE

\* self.ordered_slots
ordered_slots(cfg) ==
  CHOOSE out \in { sorted_by_start(all) :
                     all \in { cfg.lecture_slots \o cfg.tutorial_slots
                                 \o cfg.lab_slots \o cfg.minor_slots } } : TRUE

\* a dict built from enumerate(): the last position of a repeated key wins
index_in(seq, x) ==
  IF \E i \in 1..Len(seq) : seq[i] = x
  THEN (CHOOSE i \in 1..Len(seq) : seq[i] = x /\ \A j \in (i + 1)..Len(seq) : seq[j] # x) - 1
  ELSE SortSentinel

\* self.slot_index.get(slot, 999), slots being self.ordered_slots
slot_index(slots, slot) == index_in(slots, slot)
day_index(cfg, day) == index_in(cfg.working_days, day)

\* The order of the Course strings "<code> - <title> (<label>)": the codes of
\* the inputs have one length, so the strings compare by code, then label,
\* then the digit an elective label ends with.
CodeOrder == <<"C1", "C2", "C3", "C4">>
LabelOrder == <<"Elective Lecture", "Elective Tutorial", "Lab", "Lecture", "Minor", "Tutorial">>

course_key(c) == <<index_in(CodeOrder, c.code), index_in(LabelOrder, c.label), c.n>>

sort_key(cfg, slots, r) ==
  <<day_index(cfg, r.Day), slot_index(slots, r.Slot)>> \o course_key(r.Course)

\* the list sorted by the keys of its rows, each computed once
sorted_by_key(cfg, slots, rs) ==
  CHOOSE out \in { stable_sorted(rs, ks) :
                     ks \in { [i \in 1..Len(rs) |-> sort_key(cfg, slots, rs[i])] } } : TRUE

\* faulty variant of sort_rows: an unstable sort, rows with equal keys come
\* out in the reverse of the order they came in
sort_rows_ties_reversed(cfg, rows) ==
  CHOOSE out \in { sorted_by_key(cfg, slots, rs) :
                     slots \in { ordered_slots(cfg) },
                     rs \in { [i \in 1..Len(rows) |-> rows[Len(rows) + 1 - i]] } } : TRUE

\* faulty variant of sort_rows: the rows stay in the order they were appended
sort_rows_as_appended(cfg, rows) == rows

\* timetable_rows.sort(key=...): stable
sort_rows(cfg, rows) ==
  CHOOSE out \in { sorted_by_key(cfg, slots, rs) :
                     slots \in { ordered_slots(cfg) }, rs \in { rows } } : TRUE

\* --------------------------------------- branches and semesters of a table
sec_upper(x) == IF x = "a" THEN "A" ELSE IF x = "b" THEN "B" ELSE x

is_combined(r) ==
  sec_upper(r.Section) \in {"ALL", "COMBINED"} \/ r.Department \in {"ALL", "COMBINED"}
\* faulty variant of target_branches: section B is scheduled before section A
target_branches_B_first(dept) == IF dept = "CSE" THEN <<"CSE-B", "CSE-A">> ELSE <<dept>>

target_branches(dept) == IF dept = "CSE" THEN <<"CSE-A", "CSE-B">> ELSE <<dept>>

\* whether a row of separate_rows is handed to branch b
goes_to(r, b, branches) ==
  LET sec == sec_upper(strip(r.Section))
  IN  IF sec = "A" /\ "CSE-A" \in Range(branches) THEN b = "CSE-A"
      ELSE IF sec = "B" /\ "CSE-B" \in Range(branches) THEN b = "CSE-B"
      ELSE TRUE

\* the (branch, semester, rows) triples in the order generate_all visits them
Cohorts(df) ==
  LET dept_of(r) == normalize_dept(r.Department)
      sem_of(r) == _to_int(r.Semester, 0)
      depts == SelectSeq(DeptOrder, LAMBDA d :
                 d # "UNKNOWN" /\ \E i \in 1..Len(df) : dept_of(df[i]) = d)
      of_dept(d) ==
        LET sems == SortedSeq({ sem_of(df[i]) : i \in { j \in 1..Len(df) : dept_of(df[j]) = d } })
            of_sem(sm) ==
              LET sem_rows == SelectSeq(df, LAMBDA r : dept_of(r) = d /\ sem_of(r) = sm)
                  combined_rows == SelectSeq(sem_rows, is_combined)
                  separate_rows == SelectSeq(sem_rows, LAMBDA r : ~is_combined(r))
                  tb == target_branches(d)
              IN  [ k \in 1..Len(tb) |->
                     [ branch |-> tb[k], sem |-> sm,
                       rows |-> SelectSeq(separate_rows, LAMBDA r : goes_to(r, tb[k], tb))
                                \o combined_rows ] ]
        IN  ConcatAll([ k \in 1..Len(sems) |-> of_sem(sems[k]) ])
  IN  ConcatAll([ k \in 1..Len(depts) |-> of_dept(depts[k]) ])

\* student_bookings[branch].setdefault(sem, {d: [] for d in self.days})
with_cohort(sb, cfg, c) ==
  IF <<c.branch, c.sem>> \in DOMAIN sb THEN sb
  ELSE [ k \in DOMAIN sb \cup {<<c.branch, c.sem>>} |->
           IF k \in DOMAIN sb THEN sb[k] ELSE [d \in Range(cfg.working_days) |-> <<>>] ]

\* ------------------------------------------------------------------ inputs
\* A course row is a category and one of the profiles below; its code is its
\* position in the table.
Profiles ==
  { [ Department |-> "CSE", Section |-> "", Semester |-> <<1>>, Faculty |-> "F1",
      LTPSC |-> << <<3>>, <<0>>, <<0>>, <<0>>, <<3>> >>, Strength |-> <<30>> ],
    [ Department |-> "CSE", Section |-> "A", Semester |-> <<1>>, Faculty |-> "F2",
      LTPSC |-> << <<1>>, <<1>>, <<2>>, <<0>>, <<3>> >>, Strength |-> <<35>> ],
    [ Department |-> "ECE", Section |-> "", Semester |-> <<2>>, Faculty |-> "",
      LTPSC |-> << <<0>>, <<1>>, <<0>>, <<0>>, <<1>> >>, Strength |-> <<30>> ] }

\* The phases pick their rows by category, so only the order of the rows of
\* one category matters: a table lists its categories in this order.
Types == <<"Core", "Elective", "Minor">>

CourseRow(code, type, p) ==
  [ Code |-> code, Department |-> p.Department, Section |-> p.Section,
    Semester |-> p.Semester, LTPSC |-> p.LTPSC, Faculty |-> p.Faculty,
    Strength |-> p.Strength, Type |-> type ]

CourseTables ==
  UNION { { [i \in 1..n |-> CourseRow(CodeOrder[i], Types[t[i]], p[i])] :
              t \in { u \in [1..n -> 1..Len(Types)] : \A i \in 1..(n - 1) : u[i] <= u[i + 1] },
              p \in [1..n -> Profiles] } : n \in 1..MaxCourses }

\* the room tables generate_all is called with
RoomTables ==
  { <<>>,
    << [name |-> "L1", capacity |-> <<30>>, type |-> "Lab"],
       [name |-> "R1", capacity |-> <<40>>, type |-> ""] >> }

\* --------------------------------------------------------------------- Init
NoChoice ==
  [ rooms |-> <<>>, rs |-> <<>>, day |-> "", range |-> <<0, 0>>, is_lab |-> FALSE,
    strength |-> 0, used |-> {}, answer |-> NoRoom ]
NoCall == [ fn |-> "", args |-> <<>>, value |-> <<>> ]

Init ==
  /\ pc = "idle"
  /\ config \in Configs
  /\ classrooms = <<>>
  /\ bookings = <<>>
  /\ rooms_state = <<>>
  /\ student_bookings = <<>>
  /\ course_day_presence = {}
  /\ result = <<>>
  /\ todo = <<>>
  /\ timetable_rows = <<>>
  /\ work = <<>>
  /\ idx = 0
  /\ placed_rows = <<>>
  /\ still_unscheduled = <<>>
  /\ rooms_given = <<>>
  /\ courses_given = <<>>
  /\ last_choice = NoChoice
  /\ last_call = NoCall

\* ------------------------------------------------------------ control flow
\* The loops of one branch/semester in the order generate_all runs them.
PhaseOrder ==
  << "core_labs", "elective_lectures", "elective_tutorials", "minors",
     "core_lectures", "core_tutorials" >>

RECURSIVE Enter(_)
\* faulty variant of Enter: the core tutorials are scheduled before the core
\* lectures
Enter_tutorials_first(k) ==
  IF k >= 7 /\ core_lectures # <<>>
    THEN [pc |-> "core_lectures", work |-> core_lectures, idx |-> 0]
  ELSE IF k >= 6 THEN [pc |-> "salvage_begin", work |-> <<>>, idx |-> 0]
  ELSE IF k = 5 /\ core_tutorials # <<>>
    THEN [pc |-> "core_tutorials", work |-> core_tutorials, idx |-> 0]
  ELSE IF k = 5 /\ core_lectures # <<>>
    THEN [pc |-> "core_lectures", work |-> core_lectures, idx |-> 0]
  ELSE IF k = 5 THEN [pc |-> "salvage_begin", work |-> <<>>, idx |-> 0]
  ELSE IF PhaseOrder[k] = "core_labs" /\ core_lab_rows # <<>>
    THEN [pc |-> "core_labs", work |-> core_lab_rows, idx |-> 0]
  ELSE IF PhaseOrder[k] = "elective_lectures" /\ maxLslots >= 1
    THEN [pc |-> "elective_lectures", work |-> <<>>, idx |-> 1]
  ELSE IF PhaseOrder[k] = "elective_tutorials" /\ maxTslots >= 1
    THEN [pc |-> "elective_tutorials", work |-> <<>>, idx |-> 1]
  ELSE IF PhaseOrder[k] = "minors" /\ minors # <<>>
    THEN [pc |-> "minors", work |-> <<>>, idx |-> 0]
  ELSE Enter(k + 1)

\* Where control is once the loops before the k-th are over: in the first
\* loop from the k-th on that has an iteration to run, with its list and
\* index, or at the salvage pass.
Enter(k) ==
  IF k > Len(PhaseOrder) THEN [pc |-> "salvage_begin", work |-> <<>>, idx |-> 0]
  ELSE IF PhaseOrder[k] = "core_labs" /\ core_lab_rows # <<>>
    THEN [pc |-> "core_labs", work |-> core_lab_rows, idx |-> 0]
  ELSE IF PhaseOrder[k] = "elective_lectures" /\ maxLslots >= 1
    THEN [pc |-> "elective_lectures", work |-> <<>>, idx |-> 1]
  ELSE IF PhaseOrder[k] = "elective_tutorials" /\ maxTslots >= 1
    THEN [pc |-> "elective_tutorials", work |-> <<>>, idx |-> 1]
  ELSE IF PhaseOrder[k] = "minors" /\ minors # <<>>
    THEN [pc |-> "minors", work |-> <<>>, idx |-> 0]
  ELSE IF PhaseOrder[k] = "core_lectures" /\ core_lectures # <<>>
    THEN [pc |-> "core_lectures", work |-> core_lectures, idx |-> 0]
  ELSE IF PhaseOrder[k] = "core_tutorials" /\ core_tutorials # <<>>
    THEN [pc |-> "core_tutorials", work |-> core_tutorials, idx |-> 0]
  ELSE Enter(k + 1)

Goto(e) == \E x \in {e} : pc' = x.pc /\ work' = x.work /\ idx' = x.idx
\* faulty variant of "prepare classrooms": an empty room table stays empty
prepare_classrooms_as_given(classrooms_list) == _normalize_classrooms(classrooms_list)

\* ------------------------------------------------------------------ actions
\* "prepare classrooms": the normalized room table, or the one default room
\* when the table is empty or missing
prepare_classrooms(classrooms_list) ==
  LET normalized == _normalize_classrooms(classrooms_list)
  IN  IF normalized = <<>> THEN <<DefaultRoom>> ELSE normalized

\* generate_all up to the first loop of the first branch/semester
GenerateAllWith(courses, rooms) ==
  /\ courses_given' = courses
  /\ rooms_given' = rooms
  /\ classrooms' = prepare_classrooms(rooms)
  /\ bookings' = _init_bookings(config.working_days, classrooms').bookings
  /\ rooms_state' = _init_bookings(config.working_days, classrooms').rooms_state
  /\ course_day_presence' = {}
  /\ result' = <<>>
  /\ \E cohorts \in { Cohorts(courses) } : todo' = cohorts
  /\ IF todo' = <<>>
     THEN /\ pc' = "done" /\ work' = <<>> /\ idx' = 0
          /\ student_bookings' = <<>>
     ELSE /\ Goto(Enter(1)')
          /\ student_bookings' = with_cohort(<<>>, config, Head(todo'))
  /\ timetable_rows' = <<>>
  /\ UNCHANGED << config, placed_rows, still_unscheduled, last_choice, last_call >>

\* generate_all called with any course table and any room table
GenerateAll ==
  /\ pc = "idle"
  /\ \E courses \in CourseTables, rooms \in RoomTables : GenerateAllWith(courses, rooms)
\* faulty variant of Commit: the booking goes to a room taken from the catalog
\* in no fixed order, not to the room the search chose
Commit_in_any_room(code, faculty, day, slot, room_name, session_type) ==
  \E r \in Range(classrooms) :
    \E led \in { _add_booking(bookings, rooms_state, day, slot, slot_to_range(slot), r.name,
                               faculty, branch_name, sem, code, session_type) } :
      /\ bookings' = led.bookings
      /\ rooms_state' = led.rooms_state
      /\ student_bookings' = students_append(day, slot_to_range(slot))
      /\ course_day_presence' = presence_add(day, {code})

\* the commit of one session: ledger, room index, cohort bookings, presence
Commit(code, faculty, day, slot, room_name, session_type) ==
  \E led \in { _add_booking(bookings, rooms_state, day, slot, slot_to_range(slot), room_name,
                             faculty, branch_name, sem, code, session_type) } :
      /\ bookings' = led.bookings
      /\ rooms_state' = led.rooms_state
      /\ student_bookings' = students_append(day, slot_to_range(slot))
      /\ course_day_presence' = presence_add(day, {code})

\* the commit of a whole group at one (day, slot)
CommitAll(needs, local_assign, day, slot, session_type) ==
  \E led \in { CommitGroup([bookings |-> bookings, rooms_state |-> rooms_state],
                            needs, local_assign, day, slot, session_type) } :
      /\ bookings' = led.bookings
      /\ rooms_state' = led.rooms_state
      /\ student_bookings' = students_append(day, slot_to_range(slot))
      /\ course_day_presence' = presence_add(day, { needs[i].code : i \in 1..Len(needs) })

\* PHASE 1: one core lab, days and lab slots in configured order
CoreLab ==
  /\ pc = "core_labs"
  /\ \E lab \in { Head(work) }, cands \in { Candidates(config.working_days, config.lab_slots) } :
         \E rooms \in { SubSeq([k \in 1..Len(cands) |-> CoreLabTry(lab, cands[k][1], cands[k][2])], 1, Len(cands)) } :
         \E hit \in { FirstTrue([k \in 1..Len(cands) |-> rooms[k] # NoRoom], 1) } :
         IF hit # 0
         THEN /\ Commit(lab.code, lab.faculty, cands[hit][1], cands[hit][2], rooms[hit].name, "Lab")
              /\ timetable_rows' = Append(timetable_rows,
                   Row(cands[hit][1], cands[hit][2], lab, "Lab", 0, "Lab", lab.faculty, rooms[hit].name))
         ELSE /\ timetable_rows' = Append(timetable_rows,
                   Row(UNSCHEDULED, NASlot, lab, "Lab", 0, "Lab", lab.faculty, NA))
              /\ UNCHANGED ledger_vars
  /\ IF Tail(work) # <<>>
     THEN work' = Tail(work) /\ UNCHANGED << pc, idx >>
     ELSE Goto(Enter(2))
  /\ UNCHANGED << config, classrooms, result, todo, placed_rows,
                  still_unscheduled, rooms_given, courses_given, last_choice, last_call >>

\* PHASE 2, lecture track: the group of index idx
ElectiveLecturesWith(days_shuf) ==
  /\ pc = "elective_lectures"
  /\ \E needs \in { SelectSeq(elective_info, LAMBDA e : e.L_slots >= idx) }, cands \in { Candidates(days_shuf, config.lecture_slots) } :
           \E tries \in { SubSeq([k \in 1..Len(cands) |-> ElectiveLectureAttempt(needs, cands[k][1], cands[k][2])], 1, Len(cands)) } :
           \E hit \in { FirstTrue([k \in 1..Len(cands) |-> ~tries[k].conflict], 1) } :
           IF hit # 0
           THEN /\ CommitAll(needs, tries[hit].local_assign, cands[hit][1], cands[hit][2],
                             "Elective-Lecture")
                /\ timetable_rows' = timetable_rows \o
                     [ i \in 1..Len(needs) |->
                         Row(cands[hit][1], cands[hit][2], needs[i], "Elective Lecture", idx,
                             "Lecture", needs[i].faculty, tries[hit].local_assign[i]) ]
           ELSE /\ timetable_rows' = timetable_rows \o
                     [ i \in 1..Len(needs) |->
                         Row(UNSCHEDULED, NASlot, needs[i], "Elective Lecture", idx,
                             "Lecture", needs[i].faculty, NA) ]
                /\ UNCHANGED ledger_vars
  /\ IF idx + 1 <= maxLslots
     THEN idx' = idx + 1 /\ UNCHANGED << pc, work >>
     ELSE Goto(Enter(3))
  /\ UNCHANGED << config, classrooms, result, todo, placed_rows,
                  still_unscheduled, rooms_given, courses_given, last_choice, last_call >>

ElectiveLectures ==
  /\ pc = "elective_lectures"
  /\ \E days_shuf \in Perms(config.working_days) : ElectiveLecturesWith(days_shuf)

\* PHASE 2, tutorial track: the group of index idx
ElectiveTutorialsWith(days_shuf) ==
  /\ pc = "elective_tutorials"
  /\ \E needs \in { SelectSeq(elective_info, LAMBDA e : e.T_slots >= idx) }, cands \in { Candidates(days_shuf, config.tutorial_slots) } :
           \E tries \in { SubSeq([k \in 1..Len(cands) |-> ElectiveTutorialAttempt(needs, cands[k][1], cands[k][2])], 1, Len(cands)) } :
           \E hit \in { FirstTrue([k \in 1..Len(cands) |-> ~tries[k].conflict], 1) } :
           IF hit # 0
           THEN /\ CommitAll(needs, tries[hit].local_assign, cands[hit][1], cands[hit][2],
                             "Elective-Tutorial")
                /\ timetable_rows' = timetable_rows \o
                     [ i \in 1..Len(needs) |->
                         Row(cands[hit][1], cands[hit][2], needs[i], "Elective Tutorial", idx,
                             "Tutorial", needs[i].faculty, tries[hit].local_assign[i]) ]
           ELSE /\ timetable_rows' = timetable_rows \o
                     [ i \in 1..Len(needs) |->
                         Row(UNSCHEDULED, NASlot, needs[i], "Elective Tutorial", idx,
                             "Tutorial", needs[i].faculty, NA) ]
                /\ UNCHANGED ledger_vars
  /\ IF idx + 1 <= maxTslots
     THEN idx' = idx + 1 /\ UNCHANGED << pc, work >>
     ELSE Goto(Enter(4))
  /\ UNCHANGED << config, classrooms, result, todo, placed_rows,
                  still_unscheduled, rooms_given, courses_given, last_choice, last_call >>

ElectiveTutorials ==
  /\ pc = "elective_tutorials"
  /\ \E days_shuf \in Perms(config.working_days) : ElectiveTutorialsWith(days_shuf)

\* PHASE 3: all minors of the branch/semester at one (minor slot, day)
MinorsWith(shuffles) ==
  /\ pc = "minors"
  /\ \E needs \in { [i \in 1..Len(minors) |-> session_of(minors[i])] }, cands \in { MinorCandidates(shuffles, config.minor_slots, Len(config.working_days)) } :
           \E tries \in { SubSeq([k \in 1..Len(cands) |-> MinorAttempt(needs, cands[k][1], cands[k][2])], 1, Len(cands)) } :
           \E hit \in { FirstTrue([k \in 1..Len(cands) |-> ~tries[k].conflict], 1) } :
           IF hit # 0
           THEN /\ CommitAll(needs, tries[hit].local_assign, cands[hit][1], cands[hit][2], "Minor")
                /\ timetable_rows' = timetable_rows \o
                     [ i \in 1..Len(needs) |->
                         Row(cands[hit][1], cands[hit][2], needs[i], "Minor", 0,
                             "Minor", needs[i].faculty, tries[hit].local_assign[i]) ]
           ELSE /\ timetable_rows' = timetable_rows \o
                     [ i \in 1..Len(needs) |->
                         Row(UNSCHEDULED, NASlot, needs[i], "Minor", 0,
                             "Minor", minors[i].Faculty, NA) ]
                /\ UNCHANGED ledger_vars
  /\ Goto(Enter(5))
  /\ UNCHANGED << config, classrooms, result, todo, placed_rows,
                  still_unscheduled, rooms_given, courses_given, last_choice, last_call >>

Minors ==
  /\ pc = "minors"
  /\ \E shuffles \in [1..Len(config.minor_slots) -> Perms(config.working_days)] : MinorsWith(shuffles)

\* PHASE 4: one core lecture; random.shuffle(core_lectures) visits the
\* sessions in any order, the days in any order, the slots in configured order
CoreLectureWith(n, days_shuf) ==
  /\ pc = "core_lectures"
  /\ \E lec \in { work[n] }, cands \in { Candidates(days_shuf, config.lecture_slots) } :
           \E rooms \in { SubSeq([k \in 1..Len(cands) |-> CoreLectureTry(lec, cands[k][1], cands[k][2])], 1, Len(cands)) } :
           \E hit \in { FirstTrue([k \in 1..Len(cands) |-> rooms[k] # NoRoom], 1) } :
           /\ IF hit # 0
              THEN /\ Commit(lec.code, lec.faculty, cands[hit][1], cands[hit][2],
                             rooms[hit].name, "Lecture")
                   /\ timetable_rows' = Append(timetable_rows,
                        Row(cands[hit][1], cands[hit][2], lec, "Lecture", 0, "Lecture",
                            lec.faculty, rooms[hit].name))
              ELSE /\ timetable_rows' = Append(timetable_rows,
                        Row(UNSCHEDULED, NASlot, lec, "Lecture", 0, "Lecture", lec.faculty, NA))
                   /\ UNCHANGED ledger_vars
           /\ IF RemoveAt(work, n) # <<>>
              THEN work' = RemoveAt(work, n) /\ UNCHANGED << pc, idx >>
              ELSE Goto(Enter(6))
  /\ UNCHANGED << config, classrooms, result, todo, placed_rows,
                  still_unscheduled, rooms_given, courses_given, last_choice, last_call >>

CoreLecture ==
  /\ pc = "core_lectures"
  /\ \E n \in 1..Len(work), days_shuf \in Perms(config.working_days) : CoreLectureWith(n, days_shuf)

\* PHASE 5: one core tutorial, searched like a core lecture
CoreTutorialWith(n, days_shuf) ==
  /\ pc = "core_tutorials"
  /\ \E tut \in { work[n] }, cands \in { Candidates(days_shuf, config.tutorial_slots) } :
           \E rooms \in { SubSeq([k \in 1..Len(cands) |-> CoreTutorialTry(tut, cands[k][1], cands[k][2])], 1, Len(cands)) } :
           \E hit \in { FirstTrue([k \in 1..Len(cands) |-> rooms[k] # NoRoom], 1) } :
           /\ IF hit # 0
              THEN /\ Commit(tut.code, tut.faculty, cands[hit][1], cands[hit][2],
                             rooms[hit].name, "Tutorial")
                   /\ timetable_rows' = Append(timetable_rows,
                        Row(cands[hit][1], cands[hit][2], tut, "Tutorial", 0, "Tutorial",
                            tut.faculty, rooms[hit].name))
              ELSE /\ timetable_rows' = Append(timetable_rows,
                        Row(UNSCHEDULED, NASlot, tut, "Tutorial", 0, "Tutorial", tut.faculty, NA))
                   /\ UNCHANGED ledger_vars
           /\ IF RemoveAt(work, n) # <<>>
              THEN work' = RemoveAt(work, n) /\ UNCHANGED << pc, idx >>
              ELSE Goto(Enter(7))
  /\ UNCHANGED << config, classrooms, result, todo, placed_rows,
                  still_unscheduled, rooms_given, courses_given, last_choice, last_call >>

CoreTutorial ==
  /\ pc = "core_tutorials"
  /\ \E n \in 1..Len(work), days_shuf \in Perms(config.working_days) : CoreTutorialWith(n, days_shuf)

\* faulty variant of salvage_list: only the UNSCHEDULED lectures are retried
salvage_list_lectures_only(rows) ==
  LET unscheduled_items ==
        SelectSeq(rows, LAMBDA r : r.Day = UNSCHEDULED /\ r.session_type = "Lecture")
  IN  [ i \in 1..Len(unscheduled_items) |->
          [ code |-> unscheduled_items[i].code,
            session_type |-> unscheduled_items[i].session_type,
            faculty |-> unscheduled_items[i].Faculty,
            strength |-> unscheduled_items[i].strength ] ]

\* the salvage_list generate_all builds from the UNSCHEDULED rows
salvage_list(rows) ==
  LET unscheduled_items == SelectSeq(rows, LAMBDA r : r.Day = UNSCHEDULED)
  IN  [ i \in 1..Len(unscheduled_items) |->
          [ code |-> unscheduled_items[i].code,
            session_type |-> unscheduled_items[i].session_type,
            faculty |-> unscheduled_items[i].Faculty,
            strength |-> unscheduled_items[i].strength ] ]

\* SALVAGE PASS, set-up: the UNSCHEDULED rows leave timetable_rows and become
\* the list handed to _salvage_unscheduled
SalvageBegin ==
  /\ pc = "salvage_begin"
  /\ pc' = "salvage"
  /\ work' = salvage_list(timetable_rows)
  /\ timetable_rows' = SelectSeq(timetable_rows, LAMBDA r : r.Day # UNSCHEDULED)
  /\ placed_rows' = <<>>
  /\ still_unscheduled' = <<>>
  /\ UNCHANGED << config, classrooms, result, todo, idx, rooms_given, courses_given,
                  last_choice, last_call >>
  /\ UNCHANGED ledger_vars

\* _salvage_unscheduled: one session of unscheduled_list
Salvage ==
  /\ pc = "salvage"
  /\ work # <<>>
  /\ \E s \in { Head(work) } : \E cands \in { Candidates(config.working_days, pool_map(s.session_type)[1]) } :
         \E rooms \in { SubSeq([k \in 1..Len(cands) |-> SalvageTry(s, cands[k][1], cands[k][2])], 1, Len(cands)) } :
         \E hit \in { FirstTrue([k \in 1..Len(cands) |-> rooms[k] # NoRoom], 1) } :
         IF hit # 0
         THEN /\ Commit(s.code, s.faculty, cands[hit][1], cands[hit][2], rooms[hit].name,
                        s.session_type)
              /\ placed_rows' = Append(placed_rows,
                   Row(cands[hit][1], cands[hit][2], s, s.session_type, 0, s.session_type,
                       s.faculty, rooms[hit].name))
              /\ UNCHANGED still_unscheduled
         ELSE /\ still_unscheduled' = Append(still_unscheduled, s)
              /\ UNCHANGED placed_rows
              /\ UNCHANGED ledger_vars
  /\ work' = Tail(work)
  /\ UNCHANGED << pc, config, classrooms, result, todo, timetable_rows, idx,
                  rooms_given, courses_given, last_choice, last_call >>
\* faulty variant of final_rows: the rows the salvage pass placed are left out
final_rows_without_salvaged ==
  sort_rows(config,
    timetable_rows \o
    [ i \in 1..Len(still_unscheduled) |->
        Row(UNSCHEDULED, NASlot, still_unscheduled[i], still_unscheduled[i].session_type, 0,
            still_unscheduled[i].session_type, still_unscheduled[i].faculty, NA) ])

\* the rows generate_all stores for the branch/semester after the salvage pass
final_rows ==
  sort_rows(config,
    timetable_rows \o placed_rows \o
    [ i \in 1..Len(still_unscheduled) |->
        Row(UNSCHEDULED, NASlot, still_unscheduled[i], still_unscheduled[i].session_type, 0,
            still_unscheduled[i].session_type, still_unscheduled[i].faculty, NA) ])
\* faulty variant of the end of the salvage pass: the run returns after the
\* first branch/semester has been stored
FinishCohort_returning_early ==
  /\ pc = "salvage"
  /\ work = <<>>
  /\ result' = [ k \in DOMAIN result \cup {<<branch_name, sem>>} |->
                   IF k = <<branch_name, sem>> THEN final_rows ELSE result[k] ]
  /\ todo' = <<>>
  /\ pc' = "done" /\ work' = <<>> /\ idx' = 0
  /\ timetable_rows' = <<>>
  /\ placed_rows' = <<>>
  /\ still_unscheduled' = <<>>
  /\ UNCHANGED << config, classrooms, bookings, rooms_state, student_bookings,
                  course_day_presence, rooms_given, courses_given, last_choice, last_call >>

\* the end of the salvage pass: extend, sort, store, and the next branch/semester
FinishCohort ==
  /\ pc = "salvage"
  /\ work = <<>>
  /\ result' = [ k \in DOMAIN result \cup {<<branch_name, sem>>} |->
                   IF k = <<branch_name, sem>> THEN final_rows ELSE result[k] ]
  /\ todo' = Tail(todo)
  /\ IF todo' = <<>>
     THEN /\ pc' = "done" /\ work' = <<>> /\ idx' = 0
          /\ UNCHANGED student_bookings
     ELSE /\ Goto(Enter(1)')
          /\ student_bookings' = with_cohort(student_bookings, config, Head(todo'))
  /\ timetable_rows' = <<>>
  /\ placed_rows' = <<>>
  /\ still_unscheduled' = <<>>
  /\ UNCHANGED << config, classrooms, bookings, rooms_state, course_day_presence,
                  rooms_given, courses_given, last_choice, last_call >>

Next ==
  \/ GenerateAll
  \/ CoreLab
  \/ ElectiveLectures
  \/ ElectiveTutorials
  \/ Minors
  \/ CoreLecture
  \/ CoreTutorial
  \/ SalvageBegin
  \/ Salvage
  \/ FinishCohort

Spec == Init /\ [][Next]_vars

\* ------------------------------------------------ the allocator on its own
\* Largest number of bookings the allocator runs commit.
MaxBookings == 1

\* the room catalogs the allocator is asked about
AllocatorCatalogs ==
  { << [name |-> "L1", capacity |-> 30, type |-> "Lab"],
       [name |-> "R1", capacity |-> 40, type |-> "Classroom"] >>,
    << [name |-> "R2", capacity |-> 60, type |-> "Classroom"],
       [name |-> "L2", capacity |-> 40, type |-> "Software Lab"],
       [name |-> "R1", capacity |-> 40, type |-> "Classroom"],
       [name |-> "L0", capacity |-> 20, type |-> "lab"] >>,
    << [name |-> "R3", capacity |-> 30, type |-> "Classroom"],
       [name |-> "L3", capacity |-> 50, type |-> "Lab"] >> }

RequestSlots == << <<<<9, 0>>, <<10, 30>>>>, <<<<9, 0>>, <<11, 0>>>>, <<<<11, 0>>, <<13, 0>>>> >>
RequestStrengths == {30, 35, 50}
RequestExclusions == { {}, {"R1"} }

InitRoom ==
  /\ pc = "allocator"
  /\ config \in Configs
  /\ classrooms \in AllocatorCatalogs
  /\ bookings = _init_bookings(config.working_days, classrooms).bookings
  /\ rooms_state = _init_bookings(config.working_days, classrooms).rooms_state
  /\ student_bookings = <<>>
  /\ course_day_presence = {}
  /\ result = <<>>
  /\ todo = <<>>
  /\ timetable_rows = <<>>
  /\ work = <<>>
  /\ idx = 0
  /\ placed_rows = <<>>
  /\ still_unscheduled = <<>>
  /\ rooms_given = <<>>
  /\ courses_given = <<>>
  /\ last_choice = NoChoice
  /\ last_call = NoCall

booked == Len(ConcatAll([k \in 1..Len(config.working_days) |-> bookings[config.working_days[k]]]))

\* one call of _choose_room_for_session, whose answer the caller books
ChooseRoom(day, slot, is_lab, strength, used) ==
  /\ pc = "allocator"
  /\ \E room \in { _choose_room_for_session(classrooms, rooms_state, day,
                                            slot_to_range(slot), is_lab, strength, used) } :
       /\ last_choice' = [ rooms |-> classrooms, rs |-> rooms_state, day |-> day,
                           range |-> slot_to_range(slot), is_lab |-> is_lab,
                           strength |-> strength, used |-> used, answer |-> room ]
       /\ IF room # NoRoom /\ booked < MaxBookings
          THEN \E led \in { _add_booking(bookings, rooms_state, day, slot, slot_to_range(slot),
                                         room.name, "", "ALL", 1, "C1",
                                         IF is_lab THEN "Lab" ELSE "Lecture") } :
                  /\ bookings' = led.bookings
                  /\ rooms_state' = led.rooms_state
          ELSE UNCHANGED << bookings, rooms_state >>
  /\ UNCHANGED << pc, config, classrooms, student_bookings, course_day_presence, result,
                  todo, timetable_rows, work, idx, placed_rows, still_unscheduled,
                  rooms_given, courses_given, last_call >>

NextRoom ==
  \E day \in Range(config.working_days), k \in 1..Len(RequestSlots), is_lab \in BOOLEAN,
     strength \in RequestStrengths, used \in RequestExclusions :
     ChooseRoom(day, RequestSlots[k], is_lab, strength, used)

SpecRoom == InitRoom /\ [][NextRoom]_vars

\* --------------------------------- runs over a table with a malformed row
\* hours specifications that are missing (NaN), or hold a field that is no
\* integer ("3-x-0-0-3")
MalformedHours == { <<>>, << <<3>>, <<>>, <<0>>, <<0>>, <<3>> >> }

\* tables of two rows, one of which has such an hours specification
MalformedTables ==
  { [ i \in 1..2 |-> CourseRow(CodeOrder[i], Types[t[i]],
                                IF i = m THEN [p[i] EXCEPT !.LTPSC = h] ELSE p[i]) ] :
      t \in { u \in [1..2 -> 1..Len(Types)] : u[1] <= u[2] },
      p \in [1..2 -> Profiles], m \in 1..2, h \in MalformedHours }

GenerateAllMalformed ==
  /\ pc = "idle"
  /\ \E courses \in MalformedTables, rooms \in RoomTables : GenerateAllWith(courses, rooms)

NextMalformed ==
  \/ GenerateAllMalformed
  \/ CoreLab
  \/ ElectiveLectures
  \/ ElectiveTutorials
  \/ Minors
  \/ CoreLecture
  \/ CoreTutorial
  \/ SalvageBegin
  \/ Salvage
  \/ FinishCohort

SpecMalformed == Init /\ [][NextMalformed]_vars

\* ------------------------------- runs over pools with slots of other lengths
\* A configuration whose lecture, tutorial and lab pools each start with a
\* slot outside the tolerance (60, 66 and 126 minutes) followed by one at
\* its edge or inside it (95, 55 and 120 minutes); the minor slots are short.
OddConfigs ==
  { [ working_days   |-> <<"Monday", "Tuesday">>,
      lecture_slots  |-> << <<<<9, 0>>, <<10, 0>>>>, <<<<10, 40>>, <<12, 15>>>> >>,
      tutorial_slots |-> << <<<<12, 15>>, <<13, 21>>>>, <<<<12, 15>>, <<13, 10>>>> >>,
      lab_slots      |-> << <<<<9, 0>>, <<11, 6>>>>, <<<<11, 0>>, <<13, 0>>>> >>,
      minor_slots    |-> << <<<<7, 30>>, <<8, 0>>>>, <<<<18, 30>>, <<20, 0>>>> >> ] }

InitOddSlots ==
  /\ pc = "idle"
  /\ config \in OddConfigs
  /\ classrooms = <<>>
  /\ bookings = <<>>
  /\ rooms_state = <<>>
  /\ student_bookings = <<>>
  /\ course_day_presence = {}
  /\ result = <<>>
  /\ todo = <<>>
  /\ timetable_rows = <<>>
  /\ work = <<>>
  /\ idx = 0
  /\ placed_rows = <<>>
  /\ still_unscheduled = <<>>
  /\ rooms_given = <<>>
  /\ courses_given = <<>>
  /\ last_choice = NoChoice
  /\ last_call = NoCall

SpecOddSlots == InitOddSlots /\ [][Next]_vars

\* --------------------------------- runs over a pool with an afternoon lecture
\* As in the default configuration, a lecture slot lies after the lab slots
\* of the day, so that a course can have its lab and a lecture on one day.
AfternoonConfigs ==
  { [ working_days   |-> <<"Monday", "Tuesday">>,
      lecture_slots  |-> << <<<<9, 0>>, <<10, 30>>>>, <<<<14, 0>>, <<15, 30>>>> >>,
      tutorial_slots |-> << <<<<12, 15>>, <<13, 15>>>> >>,
      lab_slots      |-> << <<<<9, 0>>, <<11, 0>>>>, <<<<11, 0>>, <<13, 0>>>> >>,
      minor_slots    |-> << <<<<7, 30>>, <<9, 0>>>>, <<<<18, 30>>, <<20, 0>>>> >> ] }

InitAfternoon ==
  /\ pc = "idle"
  /\ config \in AfternoonConfigs
  /\ classrooms = <<>>
  /\ bookings = <<>>
  /\ rooms_state = <<>>
  /\ student_bookings = <<>>
  /\ course_day_presence = {}
  /\ result = <<>>
  /\ todo = <<>>
  /\ timetable_rows = <<>>
  /\ work = <<>>
  /\ idx = 0
  /\ placed_rows = <<>>
  /\ still_unscheduled = <<>>
  /\ rooms_given = <<>>
  /\ courses_given = <<>>
  /\ last_choice = NoChoice
  /\ last_call = NoCall

SpecAfternoon == InitAfternoon /\ [][Next]_vars

\* ------------------------------------------- the helper functions, called alone
\* the weekly hours a call of the expander is given
MaxHours == 4
Hours == 0..MaxHours

InitHelpers ==
  /\ pc = "helpers"
  /\ config \in Configs
  /\ classrooms = <<>>
  /\ bookings = <<>>
  /\ rooms_state = <<>>
  /\ student_bookings = <<>>
  /\ course_day_presence = {}
  /\ result = <<>>
  /\ todo = <<>>
  /\ timetable_rows = <<>>
  /\ work = <<>>
  /\ idx = 0
  /\ placed_rows = <<>>
  /\ still_unscheduled = <<>>
  /\ rooms_given = <<>>
  /\ courses_given = <<>>
  /\ last_choice = NoChoice
  /\ last_call = NoCall

Call(fn, args, value) ==
  /\ pc = "helpers"
  /\ last_call' = [ fn |-> fn, args |-> args, value |-> value ]
  /\ UNCHANGED << pc, config, classrooms, bookings, rooms_state, student_bookings,
                  course_day_presence, result, todo, timetable_rows, work, idx,
                  placed_rows, still_unscheduled, rooms_given, courses_given, last_choice >>

\* one call of _slots_needed
SlotsNeeded(L_hours, T_hours, P_hours) ==
  Call("_slots_needed", <<L_hours, T_hours, P_hours>>, _slots_needed(L_hours, T_hours, P_hours))

NextExpander == \E L_hours, T_hours, P_hours \in Hours : SlotsNeeded(L_hours, T_hours, P_hours)

SpecExpander == InitHelpers /\ [][NextExpander]_vars

\* the clock times the ranges of a call of ranges_overlap are made of
ClockTimes == { <<9, 0>>, <<10, 30>>, <<10, 45>>, <<12, 15>>, <<13, 15>> }
ClockRanges ==
  { slot_to_range(sl) : sl \in { x \in ClockTimes \X ClockTimes : time_to_min(x[1]) <= time_to_min(x[2]) } }

\* one call of ranges_overlap
RangesOverlap(a, b) == Call("ranges_overlap", <<a, b>>, ranges_overlap(a, b))

NextOverlap == \E a, b \in ClockRanges : RangesOverlap(a, b)

SpecOverlap == InitHelpers /\ [][NextOverlap]_vars

\* the rows the lists of a call of the sorter are made of: placed rows of two
\* days and two slots, and two UNSCHEDULED rows of one course description
\* that differ in the faculty column only
MaxRows == 3
SorterRows ==
  { Row("Monday", <<<<10, 45>>, <<12, 15>>>>, [code |-> "C1", strength |-> 30],
        "Lecture", 0, "Lecture", "F1", "R1"),
    Row("Monday", <<<<9, 0>>, <<11, 0>>>>, [code |-> "C2", strength |-> 30],
        "Lab", 0, "Lab", "F2", "L1"),
    Row("Tuesday", <<<<9, 0>>, <<10, 30>>>>, [code |-> "C1", strength |-> 30],
        "Lecture", 0, "Lecture", "F1", "R1"),
    Row(UNSCHEDULED, NASlot, [code |-> "C1", strength |-> 30],
        "Lecture", 0, "Lecture", "F1", NA),
    Row(UNSCHEDULED, NASlot, [code |-> "C1", strength |-> 30],
        "Lecture", 0, "Lecture", "F2", NA) }
SorterLists == UNION { [1..n -> SorterRows] : n \in 0..MaxRows }

\* timetable_rows.sort(...) on a list
SortRows(rows) == Call("sort_rows", <<rows>>, sort_rows(config, rows))

\* timetable_rows.sort(...) once more, on the list the last call left
SortAgain ==
  /\ last_call.fn = "sort_rows"
  /\ SortRows(last_call.value)

NextSorter ==
  \/ \E rows \in SorterLists : SortRows(rows)
  \/ SortAgain

SpecSorter == InitHelpers /\ [][NextSorter]_vars

\* ------------------------- runs over a table with courses of every category
\* tables of four rows of one shape: a core course, an elective and two minors
MixedTypes == <<"Core", "Elective", "Minor", "Minor">>
MixedTables ==
  { [ i \in 1..Len(MixedTypes) |-> CourseRow(CodeOrder[i], MixedTypes[i], p[i]) ] :
      p \in [1..Len(MixedTypes) -> Profiles] }

GenerateAllMixed ==
  /\ pc = "idle"
  /\ \E courses \in MixedTables, rooms \in RoomTables : GenerateAllWith(courses, rooms)

NextMixed ==
  \/ GenerateAllMixed
  \/ CoreLab
  \/ ElectiveLectures
  \/ ElectiveTutorials
  \/ Minors
  \/ CoreLecture
  \/ CoreTutorial
  \/ SalvageBegin
  \/ Salvage
  \/ FinishCohort

SpecMixed == Init /\ [][NextMixed]_vars

\* ------------------------------ runs over a week with a single lecture slot
\* a configuration of one working day whose lecture pool holds one slot
OneSlotConfigs ==
  { [ working_days   |-> <<"Monday">>,
      lecture_slots  |-> << <<<<9, 0>>, <<10, 30>>>> >>,
      tutorial_slots |-> << <<<<12, 15>>, <<13, 15>>>> >>,
      lab_slots      |-> << <<<<9, 0>>, <<11, 0>>>>, <<<<11, 0>>, <<13, 0>>>> >>,
      minor_slots    |-> << <<<<7, 30>>, <<9, 0>>>>, <<<<18, 30>>, <<20, 0>>>> >> ] }

\* courses that need one lecture and nothing else ("1-0-0-0-1")
OneLectureProfiles ==
  { [ Department |-> d[1], Section |-> d[2], Semester |-> <<d[3]>>, Faculty |-> f,
      LTPSC |-> << <<1>>, <<0>>, <<0>>, <<0>>, <<1>> >>, Strength |-> <<30>> ] :
      d \in { <<"CSE", "", 1>>, <<"CSE", "A", 1>>, <<"ECE", "", 2>> }, f \in {"F1", "F2"} }

\* tables of two core courses
OneSlotTables ==
  { [ i \in 1..2 |-> CourseRow(CodeOrder[i], "Core", p[i]) ] : p \in [1..2 -> OneLectureProfiles] }

InitOneSlot ==
  /\ pc = "idle"
  /\ config \in OneSlotConfigs
  /\ classrooms = <<>>
  /\ bookings = <<>>
  /\ rooms_state = <<>>
  /\ student_bookings = <<>>
  /\ course_day_presence = {}
  /\ result = <<>>
  /\ todo = <<>>
  /\ timetable_rows = <<>>
  /\ work = <<>>
  /\ idx = 0
  /\ placed_rows = <<>>
  /\ still_unscheduled = <<>>
  /\ rooms_given = <<>>
  /\ courses_given = <<>>
  /\ last_choice = NoChoice
  /\ last_call = NoCall

GenerateAllOneSlot ==
  /\ pc = "idle"
  /\ \E courses \in OneSlotTables, rooms \in RoomTables : GenerateAllWith(courses, rooms)

\* the steps such a run takes: these courses have core lectures only
NextOneSlot ==
  \/ GenerateAllOneSlot
  \/ CoreLecture
  \/ SalvageBegin
  \/ Salvage
  \/ FinishCohort

SpecOneSlot == InitOneSlot /\ [][NextOneSlot]_vars

\* ------------------------------------- runs over two semesters of one branch
\* courses that need one lecture and one tutorial ("1-1-0-0-2"), of the two
\* semesters of ECE or of the first semester of CSE (both sections)
TwoSemesterProfiles ==
  { [ Department |-> d[1], Section |-> "", Semester |-> <<d[2]>>, Faculty |-> f,
      LTPSC |-> << <<1>>, <<1>>, <<0>>, <<0>>, <<2>> >>, Strength |-> <<30>> ] :
      d \in { <<"ECE", 1>>, <<"ECE", 2>>, <<"CSE", 1>> }, f \in {"F1", "F2"} }

\* tables of two core courses
TwoSemesterTables ==
  { [ i \in 1..2 |-> CourseRow(CodeOrder[i], "Core", p[i]) ] : p \in [1..2 -> TwoSemesterProfiles] }

GenerateAllTwoSemesters ==
  /\ pc = "idle"
  /\ \E courses \in TwoSemesterTables, rooms \in RoomTables : GenerateAllWith(courses, rooms)

\* the steps such a run takes: these courses have core lectures and tutorials
NextTwoSemesters ==
  \/ GenerateAllTwoSemesters
  \/ CoreLecture
  \/ CoreTutorial
  \/ SalvageBegin
  \/ Salvage
  \/ FinishCohort

SpecTwoSemesters == Init /\ [][NextTwoSemesters]_vars

\* ------------------------------- two calls that draw the same random choices
\* tables of two core courses, each of one section of CSE semester 1, of
\* section A of CSE semester 2 or of ECE semester 1, needing one lecture and
\* two tutorials ("1-2-0-0-3")
ReplayTables ==
  { [ i \in 1..2 |->
        CourseRow(CodeOrder[i], "Core",
          [ Department |-> p[i][1], Section |-> p[i][2], Semester |-> <<p[i][3]>>,
            Faculty |-> p[i][4],
            LTPSC |-> << <<1>>, <<2>>, <<0>>, <<0>>, <<3>> >>, Strength |-> <<30>> ]) ] :
      p \in [1..2 -> { <<d[1], d[2], d[3], f>> :
                         d \in { <<"CSE", "A", 1>>, <<"CSE", "B", 1>>,
                                 <<"CSE", "A", 2>>, <<"ECE", "", 1>> },
                         f \in {"F1", "F2"} }] }

\* a scheduler, the tables of two calls that differ in the second course (the
\* first is taught by F1; the other case is this one with the names swapped), and
\* the values the random generator will yield: which session a shuffle puts
\* first and the order it leaves the days in, for the odd and the even draws
InitReplay ==
  /\ pc = "idle"
  /\ config \in Configs
  /\ classrooms = <<>>
  /\ bookings = <<>>
  /\ rooms_state = <<>>
  /\ student_bookings = <<>>
  /\ course_day_presence = {}
  /\ result = <<>>
  /\ todo = <<>>
  /\ timetable_rows = <<>>
  /\ work = <<>>
  /\ idx = 0
  /\ placed_rows = <<>>
  /\ still_unscheduled = <<>>
  /\ rooms_given = <<>>
  /\ courses_given = <<>>
  /\ last_choice = NoChoice
  /\ \E courses \in ReplayTables, again \in ReplayTables, rooms \in RoomTables :
       \E draws \in [1..2 -> [last : BOOLEAN, days_shuf : Perms(config.working_days)]] :
          /\ courses[1].Faculty = "F1"
          /\ again[1] = courses[1]
          /\ again # courses
          /\ last_call = [ fn |-> "generate_all",
                           args |-> <<courses, rooms, again, draws>>, value |-> <<>> ]

\* the first call of generate_all
GenerateAllFirst ==
  /\ pc = "idle"
  /\ GenerateAllWith(last_call.args[1], last_call.args[2])

\* one core lecture or tutorial, with the next values of the random generator:
\* every such step appends one row, so the rows so far count the draws
CoreReplayed ==
  \E stored \in { [ k \in DOMAIN result |-> Len(result[k]) ] } :
    \E used \in { Len(timetable_rows)
                  + (IF <<"CSE-A", 1>> \in DOMAIN stored THEN stored[<<"CSE-A", 1>>] ELSE 0)
                  + (IF <<"CSE-B", 1>> \in DOMAIN stored THEN stored[<<"CSE-B", 1>>] ELSE 0)
                  + (IF <<"CSE-A", 2>> \in DOMAIN stored THEN stored[<<"CSE-A", 2>>] ELSE 0)
                  + (IF <<"CSE-B", 2>> \in DOMAIN stored THEN stored[<<"CSE-B", 2>>] ELSE 0)
                  + (IF <<"ECE", 1>> \in DOMAIN stored THEN stored[<<"ECE", 1>>] ELSE 0) } :
      \E draw \in { last_call.args[4][(used % 2) + 1] } :
        \E n \in { IF draw.last THEN Len(work) ELSE 1 } :
          \/ CoreLectureWith(n, draw.days_shuf)
          \/ CoreTutorialWith(n, draw.days_shuf)

\* the caller keeps the dictionary the first call returned
KeepResult ==
  /\ pc = "done"
  /\ last_call.value = <<>>
  /\ last_call' = [last_call EXCEPT !.value = <<result>>]
  /\ UNCHANGED << pc, config, classrooms, bookings, rooms_state, student_bookings,
                  course_day_presence, result, todo, timetable_rows, work, idx,
                  placed_rows, still_unscheduled, rooms_given, courses_given, last_choice >>

\* the second call of generate_all, with the other course table and the
\* random generator set back
GenerateAllAgain ==
  /\ pc = "done"
  /\ last_call.value # <<>>
  /\ courses_given = last_call.args[1]
  /\ GenerateAllWith(last_call.args[3], last_call.args[2])

NextReplay ==
  \/ GenerateAllFirst
  \/ CoreReplayed
  \/ SalvageBegin
  \/ Salvage
  \/ FinishCohort
  \/ KeepResult
  \/ GenerateAllAgain

SpecReplay == InitReplay /\ [][NextReplay]_vars

\* ------------------------------------------------------------- properties
\* two half-open minute ranges share a minute
Overlapping(a, b) == a[1] < b[2] /\ b[1] < a[2]

\* the positions of the ledger: a day and an index into that day's list
LedgerDays == DOMAIN bookings
Entries(d) == 1..Len(bookings[d])
GroupTypes == {"Elective-Lecture", "Elective-Tutorial", "Minor"}

\* C1: no room holds two bookings on the same day whose time ranges overlap;
\* the bookings of one elective or minor group, committed together at one
\* (day, slot), are therefore all in different rooms.
C1_RoomNoOverlap ==
  \A d \in LedgerDays : \A i, j \in Entries(d) :
    (i # j /\ bookings[d][i].room = bookings[d][j].room)
      => ~Overlapping(bookings[d][i].range, bookings[d][j].range)

\* C1 case: a run has ended in which one room holds two bookings on one day
\* and one group was committed at one (day, slot) in two rooms.
C1_Witness ==
  /\ pc = "done"
  /\ \E d \in LedgerDays : \E i, j \in Entries(d) :
       /\ i # j
       /\ bookings[d][i].room = bookings[d][j].room
  /\ \E d \in LedgerDays : \E i, j \in Entries(d) :
       /\ i # j
       /\ bookings[d][i].slot = bookings[d][j].slot
       /\ bookings[d][i].type = bookings[d][j].type
       /\ bookings[d][i].type \in GroupTypes
       /\ bookings[d][i].branch = bookings[d][j].branch
       /\ bookings[d][i].room # bookings[d][j].room

\* C2 (as the specification states it): no member of staff with a non-empty
\* name holds two bookings on the same day whose time ranges overlap, the
\* bookings committed together in one group included.
C2_FacultyNoOverlap ==
  \A d \in LedgerDays : \A i, j \in Entries(d) :
    (i # j /\ bookings[d][i].faculty # "" /\ bookings[d][i].faculty = bookings[d][j].faculty)
      => ~Overlapping(bookings[d][i].range, bookings[d][j].range)

\* C3 (as the specification states it): no cohort (branch, semester) holds
\* two bookings on the same day whose time ranges overlap, whatever the kind
\* of session.
C3_CohortNoOverlap ==
  \A d \in LedgerDays : \A i, j \in Entries(d) :
    (i # j /\ bookings[d][i].branch = bookings[d][j].branch
           /\ bookings[d][i].sem = bookings[d][j].sem)
      => ~Overlapping(bookings[d][i].range, bookings[d][j].range)

\* C3 (amended): two bookings of one cohort on the same day overlap only when
\* they were committed together in one elective or minor group, that is, when
\* they have the identical slot and the same group kind; and the cohort's own
\* list of occupied ranges never holds two overlapping ranges on one day.
C3_CohortNoOverlapOutsideGroups ==
  /\ \A d \in LedgerDays : \A i, j \in Entries(d) :
       (i # j /\ bookings[d][i].branch = bookings[d][j].branch
              /\ bookings[d][i].sem = bookings[d][j].sem
              /\ Overlapping(bookings[d][i].range, bookings[d][j].range))
         => /\ bookings[d][i].slot = bookings[d][j].slot
            /\ bookings[d][i].type = bookings[d][j].type
            /\ bookings[d][i].type \in GroupTypes
            /\ bookings[d][i].course # bookings[d][j].course
  /\ \A k \in DOMAIN student_bookings : \A d \in DOMAIN student_bookings[k] :
       \A i, j \in 1..Len(student_bookings[k][d]) :
         i # j => ~Overlapping(student_bookings[k][d][i], student_bookings[k][d][j])

\* C3 case: a run has ended in which one cohort holds, on one day, two
\* bookings of one group at the same slot and a third booking at another time.
C3_Witness ==
  /\ pc = "done"
  /\ \E d \in LedgerDays : \E i, j, k \in Entries(d) :
       /\ i # j
       /\ bookings[d][i].branch = bookings[d][j].branch
       /\ bookings[d][i].sem = bookings[d][j].sem
       /\ bookings[d][i].slot = bookings[d][j].slot
       /\ bookings[d][k].branch = bookings[d][i].branch
       /\ bookings[d][k].sem = bookings[d][i].sem
       /\ ~Overlapping(bookings[d][k].range, bookings[d][i].range)

\* C4: no course of a cohort holds two bookings of type 'Lecture' on the
\* same day.
C4_OneLecturePerDay ==
  \A d \in LedgerDays : \A i, j \in Entries(d) :
    (i # j /\ bookings[d][i].type = "Lecture" /\ bookings[d][j].type = "Lecture"
           /\ bookings[d][i].branch = bookings[d][j].branch
           /\ bookings[d][i].sem = bookings[d][j].sem)
      => bookings[d][i].course # bookings[d][j].course

\* C4 case: a run has ended in which one course of one cohort holds 'Lecture'
\* bookings on two different days, and some day carries two 'Lecture'
\* bookings of that cohort.
C4_Witness ==
  /\ pc = "done"
  /\ \E d1, d2 \in LedgerDays : \E i \in Entries(d1), j \in Entries(d2) :
       /\ d1 # d2
       /\ bookings[d1][i].type = "Lecture" /\ bookings[d2][j].type = "Lecture"
       /\ bookings[d1][i].branch = bookings[d2][j].branch
       /\ bookings[d1][i].sem = bookings[d2][j].sem
       /\ bookings[d1][i].course = bookings[d2][j].course
       /\ \E k \in Entries(d1) :
            /\ k # i
            /\ bookings[d1][k].type = "Lecture"
            /\ bookings[d1][k].branch = bookings[d1][i].branch
            /\ bookings[d1][k].sem = bookings[d1][i].sem

\* the branch/semesters of the run with their course rows, and the key under
\* which generate_all stores each one's final list
GivenCohorts == Range(Cohorts(courses_given))
KeyOf(c) == <<c.branch, c.sem>>
ExpectedSessions(r) ==
  LET h == _parse_ltpsc(r.LTPSC)
      n == _slots_needed(h[1], h[2], h[3])
  IN  n[1] + n[2] + n[3]
RowsOf(rows, code) == { j \in 1..Len(rows) : rows[j].code = code }

\* C5 (as the specification states it): for every course row of every
\* branch/semester, core, elective or minor, the final list holds as many rows
\* for the course (placed plus UNSCHEDULED) as the expander derives sessions
\* from its lecture, tutorial and lab hours.
C5_SessionCount ==
  \A c \in GivenCohorts :
    KeyOf(c) \in DOMAIN result =>
      \A i \in 1..Len(c.rows) :
        Cardinality(RowsOf(result[KeyOf(c)], c.rows[i].Code)) = ExpectedSessions(c.rows[i])

\* C6 (as the specification states it): in the final list of a
\* branch/semester, for every lecture index n the n-th lectures of all
\* electives that need one are either all at one identical (day, slot) or all
\* UNSCHEDULED. The n-th lecture of an elective is the row labelled
\* (Elective Lecture n) when the group was placed; when it was not, the
\* salvage pass takes the elective's failed indices in increasing order, so
\* the n-th lecture was placed by it when the elective has at least as many
\* salvaged lecture rows as failed indices up to n.
C6_ElectiveLectureGroups ==
  \A c \in GivenCohorts :
    KeyOf(c) \in DOMAIN result =>
      LET rows == result[KeyOf(c)]
          elec == { i \in 1..Len(c.rows) : row_type(c.rows[i]) = "elective" }
          L(i) == LET h == _parse_ltpsc(c.rows[i].LTPSC)
                  IN  _slots_needed(h[1], h[2], h[3])[1]
          labelled(i, n) == { j \in RowsOf(rows, c.rows[i].Code) :
                                /\ rows[j].Course.label = "Elective Lecture"
                                /\ rows[j].Course.n = n }
          salv(i) == { j \in RowsOf(rows, c.rows[i].Code) :
                         /\ rows[j].Course.label = "Lecture"
                         /\ rows[j].Day # UNSCHEDULED }
          failed(i) == { n \in 1..L(i) : labelled(i, n) = {} }
          salvaged(i, n) ==
            /\ n \in failed(i)
            /\ Cardinality({ m \in failed(i) : m <= n }) <= Cardinality(salv(i))
      IN  \A n \in 1..MaxCourses + 2 :
            LET M == { i \in elec : L(i) >= n }
            IN  \/ /\ \A i \in M : labelled(i, n) # {}
                   /\ \A i1, i2 \in M : \A j1 \in labelled(i1, n), j2 \in labelled(i2, n) :
                        /\ rows[j1].Day # UNSCHEDULED
                        /\ rows[j1].Day = rows[j2].Day
                        /\ rows[j1].Slot = rows[j2].Slot
                \/ \A i \in M : labelled(i, n) = {} /\ ~salvaged(i, n)
                \/ /\ \A i \in M : salvaged(i, n)
                   /\ \E j0 \in 1..Len(rows) : \A i \in M : \E j \in salv(i) :
                        /\ rows[j].Day = rows[j0].Day
                        /\ rows[j].Slot = rows[j0].Slot

\* C7 (as the specification states it): in the final list of a
\* branch/semester all placed rows of minor courses are at one identical
\* (day, slot).
C7_MinorsTogether ==
  \A k \in DOMAIN result : \A j1, j2 \in 1..Len(result[k]) :
    ( /\ result[k][j1].session_type = "Minor" /\ result[k][j1].Day # UNSCHEDULED
      /\ result[k][j2].session_type = "Minor" /\ result[k][j2].Day # UNSCHEDULED )
      => /\ result[k][j1].Day = result[k][j2].Day
         /\ result[k][j1].Slot = result[k][j2].Slot

\* a run of generate_all that was given no room
ZeroRoomsRun == courses_given # <<>> /\ rooms_given = <<>>

\* C8 (as the specification states it): a run given zero rooms commits no
\* booking and ends with every row UNSCHEDULED.
C8_ZeroRoomsNothingPlaced ==
  ZeroRoomsRun =>
    /\ \A d \in LedgerDays : bookings[d] = <<>>
    /\ \A k \in DOMAIN result : \A j \in 1..Len(result[k]) : result[k][j].Day = UNSCHEDULED

\* C8 (amended): a run given zero rooms works with the one default room
\* (C004, capacity 300, Classroom): every booking and every placed row is in
\* that room, and once the run has ended some session has been placed whenever
\* some session's strength fits the default room.
C8_ZeroRoomsDefaultRoom ==
  ZeroRoomsRun =>
    /\ classrooms = <<DefaultRoom>>
    /\ \A d \in LedgerDays : \A i \in Entries(d) : bookings[d][i].room = DefaultRoom.name
    /\ \A k \in DOMAIN result : \A j \in 1..Len(result[k]) :
         result[k][j].Day # UNSCHEDULED => result[k][j].Room = DefaultRoom.name
    /\ ( /\ pc = "done"
         /\ \E k \in DOMAIN result : \E j \in 1..Len(result[k]) :
              result[k][j].strength <= DefaultRoom.capacity )
       => \E k \in DOMAIN result : \E j \in 1..Len(result[k]) :
            /\ result[k][j].Day # UNSCHEDULED
            /\ \E i \in Entries(result[k][j].Day) :
                 /\ bookings[result[k][j].Day][i].slot = result[k][j].Slot
                 /\ bookings[result[k][j].Day][i].course = result[k][j].code

\* C8 case: a run given zero rooms has ended with a session placed in the
\* default room and another session left UNSCHEDULED.
C8_Witness ==
  /\ ZeroRoomsRun
  /\ pc = "done"
  /\ \E k \in DOMAIN result : \E j1, j2 \in 1..Len(result[k]) :
       /\ result[k][j1].Room = DefaultRoom.name
       /\ result[k][j2].Day = UNSCHEDULED

\* the request the allocator answered last, read declaratively
Asked == last_choice # NoChoice
Busy(r) ==
  \E i \in 1..Len(RoomBookings(last_choice.rs, r.name)) :
    /\ RoomBookings(last_choice.rs, r.name)[i].day = last_choice.day
    /\ Overlapping(RoomBookings(last_choice.rs, r.name)[i].range, last_choice.range)
Adequate(r) ==
  /\ r.capacity >= last_choice.strength
  /\ ~Busy(r)
  /\ r.name \notin last_choice.used
LabTyped(r) == is_lab_type(r.type)
Catalog == Range(last_choice.rooms)
\* the rooms the allocator searched: for a lab request the adequate lab-typed
\* rooms when there is one, otherwise all adequate rooms
Searched ==
  IF last_choice.is_lab /\ \E r \in Catalog : LabTyped(r) /\ Adequate(r)
  THEN { r \in Catalog : LabTyped(r) /\ Adequate(r) }
  ELSE { r \in Catalog : Adequate(r) }

\* C9: the allocator returns a room only if it has capacity for the required
\* strength, no booking overlapping the candidate range on that day, and is
\* not excluded; the room returned has the least capacity of the rooms
\* searched; and "no room" is returned exactly when no room of the catalog
\* meets the three conditions.
C9_ChooseRoomContract ==
  Asked =>
    /\ last_choice.answer # NoRoom =>
         /\ last_choice.answer \in Catalog
         /\ Adequate(last_choice.answer)
         /\ last_choice.answer \in Searched
         /\ \A r \in Searched : last_choice.answer.capacity <= r.capacity
    /\ last_choice.answer = NoRoom <=> ~\E r \in Catalog : Adequate(r)

\* C9 case: the allocator returned a room while a room of the catalog with
\* enough capacity was busy in the range, another was too small, and an
\* adequate room of larger capacity was passed over.
C9_Witness ==
  /\ Asked
  /\ last_choice.answer # NoRoom
  /\ \E r \in Catalog : Busy(r) /\ r.capacity >= last_choice.strength
  /\ \E r \in Catalog : r.capacity < last_choice.strength
  /\ \E r \in Searched : r.capacity > last_choice.answer.capacity

\* C10: for a lab request, when no lab-typed room is adequate, free and not
\* excluded but a room of another type is, the allocator returns the smallest
\* of those rooms and not "no room".
C10_LabFallback ==
  ( /\ Asked
    /\ last_choice.is_lab
    /\ ~\E r \in Catalog : LabTyped(r) /\ Adequate(r)
    /\ \E r \in Catalog : ~LabTyped(r) /\ Adequate(r) )
  => /\ last_choice.answer # NoRoom
     /\ last_choice.answer \in Catalog
     /\ ~LabTyped(last_choice.answer)
     /\ Adequate(last_choice.answer)
     /\ \A r \in Catalog : Adequate(r) => last_choice.answer.capacity <= r.capacity

\* C10 case: a lab request whose strength exceeds the capacity of every
\* lab-typed room of the catalog was given a free classroom.
C10_Witness ==
  /\ Asked
  /\ last_choice.is_lab
  /\ \E r \in Catalog : LabTyped(r)
  /\ \A r \in Catalog : LabTyped(r) => r.capacity < last_choice.strength
  /\ last_choice.answer # NoRoom
  /\ ~LabTyped(last_choice.answer)

\* a list that only grew at its end
Extends(new, old) == Len(old) <= Len(new) /\ SubSeq(new, 1, Len(old)) = old

\* C11: the ledger is append-only: at every step of a run every booking that
\* was in the ledger before the step is still there, unchanged and at the
\* same position, after it, in the per-day lists and in the per-room lists
\* alike.
C11_LedgerAppendOnly ==
  [][ /\ \A d \in DOMAIN bookings :
           d \in DOMAIN bookings' /\ Extends(bookings'[d], bookings[d])
      /\ \A r \in DOMAIN rooms_state :
           r \in DOMAIN rooms_state' /\ Extends(rooms_state'[r], rooms_state[r]) ]_vars

\* C11 case: a run has ended in which a session was left UNSCHEDULED in one
\* branch/semester while bookings made before it and bookings of a later
\* branch/semester are in the ledger.
C11_Witness ==
  /\ pc = "done"
  /\ \E k1, k2 \in DOMAIN result :
       /\ k1 # k2
       /\ \E j \in 1..Len(result[k1]) : result[k1][j].Day = UNSCHEDULED
       /\ \E j \in 1..Len(result[k1]) : result[k1][j].Day # UNSCHEDULED
       /\ \E j \in 1..Len(result[k2]) : result[k2][j].Day # UNSCHEDULED

\* generate_all is sequential code: whenever a step can be taken, one is taken
SpecFair == Spec /\ WF_vars(Next)

\* C12: every run of generate_all ends, and when it has ended the result
\* holds a list for every branch/semester the course table gives rise to.
C12_Terminates ==
  <>( /\ pc = "done"
      /\ \A c \in GivenCohorts : KeyOf(c) \in DOMAIN result )

\* C12 case: a run over several branch/semesters has ended; a session whose
\* search failed everywhere stands as an UNSCHEDULED row, and another
\* branch/semester has its own, non-empty list.
C12_Witness ==
  /\ pc = "done"
  /\ Cardinality(DOMAIN result) >= 2
  /\ \A c \in GivenCohorts : KeyOf(c) \in DOMAIN result
  /\ \E k1, k2 \in DOMAIN result :
       /\ k1 # k2
       /\ \E j \in 1..Len(result[k1]) : result[k1][j].Day = UNSCHEDULED
       /\ result[k2] # <<>>

\* the slot labels of the configuration, and the two readings of "the catalog"
SlotLabels ==
  Range(config.lecture_slots \o config.tutorial_slots \o config.lab_slots \o config.minor_slots)
GivenRoomNames == { rooms_given[i].name : i \in 1..Len(rooms_given) }
RunRoomNames == { classrooms[i].name : i \in 1..Len(classrooms) }

\* a ledger entry and a row of branch/semester k describe the same session
SameSession(b, r, k) ==
  /\ b.day = r.Day /\ b.slot = r.Slot /\ b.room = r.Room /\ b.faculty = r.Faculty
  /\ b.branch = k[1] /\ b.sem = k[2] /\ b.course = r.code

BookingsOf(r, k) ==
  UNION { { <<d, i>> : i \in { e \in Entries(d) : SameSession(bookings[d][e], r, k) } } :
          d \in LedgerDays }

PlacedShape(r, catalog) ==
  /\ r.Day \in Range(config.working_days)
  /\ r.Slot \in SlotLabels
  /\ r.Room \in catalog

SentinelShape(r) == r.Day = UNSCHEDULED /\ r.Slot = NASlot /\ r.Room = NA

RowsAndBookings(catalog) ==
  /\ \A k \in DOMAIN result :
       /\ \A j \in 1..Len(result[k]) :
            \/ PlacedShape(result[k][j], catalog) /\ Cardinality(BookingsOf(result[k][j], k)) = 1
            \/ SentinelShape(result[k][j]) /\ BookingsOf(result[k][j], k) = {}
       /\ \A d \in LedgerDays : \A i \in Entries(d) :
            (bookings[d][i].branch = k[1] /\ bookings[d][i].sem = k[2])
            => Cardinality({ j \in 1..Len(result[k]) :
                               SameSession(bookings[d][i], result[k][j], k) }) = 1
  /\ pc = "done" =>
       \A d \in LedgerDays : \A i \in Entries(d) :
         <<bookings[d][i].branch, bookings[d][i].sem>> \in DOMAIN result

\* C13 (as the specification states it): every row of the result is either a
\* placed row (a working day, a configured slot, a room of the catalog the run
\* was given, exactly one ledger entry for the same day, slot, room, faculty,
\* branch, semester and course) or a sentinel row (UNSCHEDULED, N/A, N/A, no
\* ledger entry); every ledger entry has exactly one placed row.
C13_RowsMatchLedgerGivenCatalog == RowsAndBookings(GivenRoomNames)

\* C13 (amended): the same, where the room of a placed row is a room of the
\* catalog the run works with: the normalized rooms it was given, or the one
\* default room C004 when it was given none.
C13_RowsMatchLedger == RowsAndBookings(RunRoomNames)

\* C13 case: a run given no room has ended; two branch/semesters each hold a
\* placed row, and one of them also holds a sentinel row.
C13_Witness ==
  /\ pc = "done"
  /\ rooms_given = <<>>
  /\ \E k1, k2 \in DOMAIN result : \E j1, j2 \in 1..Len(result[k1]) : \E j3 \in 1..Len(result[k2]) :
       /\ k1 # k2
       /\ PlacedShape(result[k1][j1], RunRoomNames)
       /\ SentinelShape(result[k1][j2])
       /\ PlacedShape(result[k2][j3], RunRoomNames)

\* ceil(a / b) of two naturals, b > 0: the least n with n * b >= a
Ceiling(a, b) == CHOOSE n \in 0..a : n * b >= a /\ \A m \in 0..(n - 1) : m * b < a

\* C14: for non-negative hours the expander yields ceil(h*60/90) lecture,
\* ceil(h*60/60) tutorial and ceil(h*60/120) lab sessions, 0 sessions of a
\* kind whose hours are 0, and 2 lecture sessions for 3 lecture hours.
C14_ExpanderCounts ==
  last_call.fn = "_slots_needed" =>
    /\ last_call.value[1] = Ceiling(last_call.args[1] * 60, 90)
    /\ last_call.value[2] = Ceiling(last_call.args[2] * 60, 60)
    /\ last_call.value[3] = Ceiling(last_call.args[3] * 60, 120)
    /\ \A k \in 1..3 : last_call.args[k] = 0 => last_call.value[k] = 0
    /\ last_call.args[1] = 3 => last_call.value[1] = 2

\* C14 case: a call with 3 lecture hours, no tutorial hour and 3 lab hours
\* answered 2 lectures, no tutorial and 2 labs: both quotients are rounded up.
C14_Witness ==
  /\ last_call.fn = "_slots_needed"
  /\ last_call.args = <<3, 0, 3>>
  /\ last_call.value = <<2, 0, 2>>

\* an hours specification that is missing or has a field that is no integer
Malformed(ltpsc) == ltpsc = <<>> \/ \E i \in 1..Len(ltpsc) : Len(ltpsc[i]) # 1

NoTraceOf(code) ==
  /\ \A d \in LedgerDays : \A i \in Entries(d) : bookings[d][i].course # code
  /\ \A k \in DOMAIN result : RowsOf(result[k], code) = {}

\* C15 (as the specification states it): a course whose hours specification
\* is missing or malformed contributes no row, placed or UNSCHEDULED, to any
\* list of the result and no booking to the ledger.
C15_MalformedNoSessions ==
  \A i \in 1..Len(courses_given) :
    Malformed(courses_given[i].LTPSC) => NoTraceOf(courses_given[i].Code)

\* C16: ranges_overlap(a, b) is true exactly when a starts before b ends and
\* b starts before a ends; it gives the same answer for (b, a); a range that
\* ends at the minute the other starts does not overlap it.
C16_OverlapExact ==
  last_call.fn = "ranges_overlap" =>
    /\ last_call.value = Overlapping(last_call.args[1], last_call.args[2])
    /\ last_call.value = ranges_overlap(last_call.args[2], last_call.args[1])
    /\ last_call.args[1][2] = last_call.args[2][1] => last_call.value = FALSE

\* C16 case: the call with 10:45-12:15 and 12:15-13:15 answered "no overlap".
C16_Witness ==
  /\ last_call.fn = "ranges_overlap"
  /\ last_call.args = << slot_to_range(<< <<10, 45>>, <<12, 15>> >>),
                         slot_to_range(<< <<12, 15>>, <<13, 15>> >>) >>
  /\ last_call.value = FALSE

\* the key the final sort orders a row by, given the slots of all pools in
\* start-time order
RowKey(slots, r) ==
  <<index_in(config.working_days, r.Day), index_in(slots, r.Slot)>> \o course_key(r.Course)
KeyOfRow(r) == RowKey(ordered_slots(config), r)
KeyLessEq(a, b) == a = b \/ tuple_less(a, b)

\* C17: once the run has ended, every list of the result is non-decreasing
\* in (day index in the configured week, slot index in the start-time
\* ordering of all slots, course description), whatever orders the shuffles
\* produced; placed rows of one day therefore follow each other by start
\* time, and every UNSCHEDULED row comes after every placed row.
C17_ListsSorted ==
  pc = "done" => \A slots \in { ordered_slots(config) } : \A k \in DOMAIN result :
    \A keys \in { [j \in 1..Len(result[k]) |-> RowKey(slots, result[k][j])] } :
      /\ \A j \in 1..(Len(result[k]) - 1) :
           /\ KeyLessEq(keys[j], keys[j + 1])
           /\ ( result[k][j].Day = result[k][j + 1].Day /\ result[k][j].Day # UNSCHEDULED )
              => time_to_min(result[k][j].Slot[1]) <= time_to_min(result[k][j + 1].Slot[1])
      /\ \A j1, j2 \in 1..Len(result[k]) :
           ( result[k][j1].Day = UNSCHEDULED /\ result[k][j2].Day # UNSCHEDULED ) => j2 < j1

\* C17 case: the run has ended and a list holds two placed rows of one day at
\* different slots, a placed row of another day and an UNSCHEDULED row.
C17_Witness ==
  pc = "done" /\ \E k \in DOMAIN result : \E j1, j2, j3, j4 \in 1..Len(result[k]) :
    /\ j1 < j2 /\ j2 < j3 /\ j3 < j4
    /\ result[k][j1].Day = result[k][j2].Day
    /\ result[k][j1].Slot # result[k][j2].Slot
    /\ result[k][j3].Day \notin {result[k][j1].Day, UNSCHEDULED}
    /\ result[k][j4].Day = UNSCHEDULED

\* C18: sorting the list a call of the sorter returned gives the identical
\* list, the same rows in the same order.
C18_SortIdempotent ==
  [][ ( /\ last_call.fn = "sort_rows"
        /\ last_call'.fn = "sort_rows"
        /\ last_call'.args = <<last_call.value>> )
      => last_call'.value = last_call.value ]_vars

\* C18 case: the sorter was called on a list it had sorted, which holds a
\* placed row and two different UNSCHEDULED rows with equal keys.
C18_Witness ==
  /\ last_call.fn = "sort_rows"
  /\ last_call.args = <<last_call.value>>
  /\ \E i, j, m \in 1..Len(last_call.value) :
       /\ last_call.value[i].Day # UNSCHEDULED
       /\ last_call.value[j].Day = UNSCHEDULED
       /\ last_call.value[j] # last_call.value[m]
       /\ KeyOfRow(last_call.value[j]) = KeyOfRow(last_call.value[m])

\* a step of the action A leads to one state only
Unique(A) == A => \E v \in { vars' } : ~ENABLED (A /\ vars' # v)

DayOrders == Perms(config.working_days)

ExpectedMinutes(type) ==
  IF type \in {"Lecture", "Elective-Lecture"} THEN 90
  ELSE IF type \in {"Tutorial", "Elective-Tutorial"} THEN 60
  ELSE 120
Minutes(rng) == rng[2] - rng[1]

\* C20: every ledger entry of a lecture, tutorial or lab, core or elective,
\* booked by a phase or by the salvage pass, has a range whose length is
\* within 5 minutes of 90, 60 resp. 120 minutes, and so has its slot.
C20_DurationsWithinTolerance ==
  \A d \in LedgerDays : \A i \in Entries(d) :
    bookings[d][i].type # "Minor" =>
      /\ Minutes(bookings[d][i].range) - ExpectedMinutes(bookings[d][i].type) \in -5..5
      /\ Minutes(slot_to_range(bookings[d][i].slot)) - ExpectedMinutes(bookings[d][i].type) \in -5..5

\* C20 case: the salvage pass has placed a lecture, tutorial or lab, and the
\* ledger holds a lecture in the 95-minute slot on a day on which the
\* 60-minute lecture slot at 9:00 stayed free of every booking.
C20_Witness ==
  /\ \E i \in 1..Len(placed_rows) : placed_rows[i].session_type # "Minor"
  /\ \E d \in LedgerDays : \E i \in Entries(d) :
       /\ bookings[d][i].type \in {"Lecture", "Elective-Lecture"}
       /\ Minutes(bookings[d][i].range) = 95
       /\ \A j \in Entries(d) :
            ~Overlapping(bookings[d][j].range, slot_to_range(<< <<9, 0>>, <<10, 0>> >>))

\* the phase a position of generate_all belongs to, in the order of the code
PhaseRank(p) ==
  IF p = "core_labs" THEN 1
  ELSE IF p \in {"elective_lectures", "elective_tutorials"} THEN 2
  ELSE IF p = "minors" THEN 3
  ELSE IF p = "core_lectures" THEN 4
  ELSE IF p = "core_tutorials" THEN 5
  ELSE 6
\* the types of the ledger entries a phase commits
CommitTypes(p) ==
  IF p = "core_labs" THEN {"Lab"}
  ELSE IF p = "elective_lectures" THEN {"Elective-Lecture"}
  ELSE IF p = "elective_tutorials" THEN {"Elective-Tutorial"}
  ELSE IF p = "minors" THEN {"Minor"}
  ELSE IF p = "core_lectures" THEN {"Lecture"}
  ELSE IF p = "core_tutorials" THEN {"Tutorial"}
  ELSE IF p = "salvage" THEN {"Lecture", "Tutorial", "Lab", "Minor"}
  ELSE {}
\* the ledger entries a step appends
Appended(d) == { bookings'[d][i] : i \in (Len(bookings[d]) + 1)..Len(bookings'[d]) }

\* C21: within one branch/semester the commits happen in phase order: while
\* the branch/semester is being scheduled control never moves from a phase to
\* an earlier one (core labs, grouped electives, grouped minors, core
\* lectures, core tutorials, salvage), and every entry a step appends to the
\* ledger is an entry of the current branch/semester of the kind the phase
\* control is in commits; so no commit of an earlier phase follows a commit
\* of a later one, and every salvage commit comes after all the others.
C21_PhaseOrder ==
  [][ /\ (todo # <<>> /\ todo' = todo) => PhaseRank(pc') >= PhaseRank(pc)
      /\ \A d \in DOMAIN bookings : \A b \in Appended(d) :
           /\ b.type \in CommitTypes(pc)
           /\ b.branch = branch_name /\ b.sem = sem ]_vars

\* the kinds of entry the ledger holds for the current branch/semester
TypesOfCohort ==
  UNION { { bookings[d][i].type :
              i \in { e \in Entries(d) : /\ bookings[d][e].branch = branch_name
                                         /\ bookings[d][e].sem = sem } } :
          d \in LedgerDays }

\* C21 case: the salvage pass of a branch/semester has placed a session after
\* the core-lab, elective, core-lecture and core-tutorial phases each
\* committed one for it.
C21_Witness ==
  /\ pc = "salvage"
  /\ placed_rows # <<>>
  /\ {"Lab", "Elective-Lecture", "Lecture", "Tutorial"} \subseteq TypesOfCohort

\* the session a row stands for, as the salvage pass identifies it
SessionOfRow(r) ==
  [ code |-> r.code, session_type |-> r.session_type, faculty |-> r.Faculty,
    strength |-> r.strength ]
SessionsOfRows(rows) == [ i \in 1..Len(rows) |-> SessionOfRow(rows[i]) ]
Count(seq, x) == Cardinality({ i \in 1..Len(seq) : seq[i] = x })
\* two lists hold the same elements the same number of times
SameBag(a, b) ==
  /\ Len(a) = Len(b)
  /\ \A x \in Range(a) : Count(a, x) = Count(b, x)
Placed(rows) == SelectSeq(rows, LAMBDA r : r.Day # UNSCHEDULED)
Unplaced(rows) == SelectSeq(rows, LAMBDA r : r.Day = UNSCHEDULED)
\* the sessions the salvage pass was handed: those still to try, those it
\* placed and those it gave up
Handed == work \o SessionsOfRows(placed_rows) \o still_unscheduled

\* C22: the salvage pass of a branch/semester is handed exactly the sessions
\* of the rows that are UNSCHEDULED when the five phases are over, while the
\* placed rows stay as they are; each of its steps takes one session off the
\* list and puts it either with the placed or with the given-up ones, and
\* touches no row of the main phases; the list stored in the end holds the
\* rows of the main phases unchanged, one placed row for every session the
\* pass placed and one UNSCHEDULED row for every session it gave up, so it
\* holds every session handed to the pass exactly once and at most as many
\* UNSCHEDULED rows as there were before the pass.
C22_SalvageConserves ==
  [][ /\ pc = "salvage_begin" =>
           /\ work' = SessionsOfRows(Unplaced(timetable_rows))
           /\ timetable_rows' = Placed(timetable_rows)
           /\ placed_rows' = <<>> /\ still_unscheduled' = <<>>
      /\ (pc = "salvage" /\ work # <<>>) =>
           /\ work' = Tail(work)
           /\ SameBag(Handed', Handed)
           /\ Extends(placed_rows', placed_rows)
           /\ Extends(still_unscheduled', still_unscheduled)
           /\ timetable_rows' = timetable_rows
      /\ (pc = "salvage" /\ work = <<>>) =>
           \E final \in { result'[<<branch_name, sem>>] } :
             /\ SameBag(Placed(final), timetable_rows \o placed_rows)
             /\ SameBag(SessionsOfRows(Unplaced(final)), still_unscheduled)
             /\ SameBag(SessionsOfRows(final),
                        SessionsOfRows(timetable_rows) \o Handed)
             /\ Len(Unplaced(final)) <= Len(Handed) ]_vars

\* C22 case: the salvage pass of a branch/semester that has rows placed by
\* the main phases is over; it placed a session and gave another one up.
C22_Witness ==
  /\ pc = "salvage"
  /\ work = <<>>
  /\ timetable_rows # <<>>
  /\ placed_rows # <<>>
  /\ still_unscheduled # <<>>

\* a run over a single core course with 3 lecture hours for which the catalog
\* of the run has a room large enough, under a configuration in which two
\* days have a lecture slot of a lecture's length
SingleCoreCourseRun ==
  /\ Len(courses_given) = 1
  /\ row_type(courses_given[1]) = "core"
  /\ _parse_ltpsc(courses_given[1].LTPSC)[1] = 3
  /\ \E i \in 1..Len(classrooms) :
       classrooms[i].capacity >= _to_int(courses_given[1].Strength, 0)
  /\ \E d1, d2 \in Range(config.working_days) :
       /\ d1 # d2
       /\ \E sl \in Range(config.lecture_slots) :
            Minutes(slot_to_range(sl)) - durations.Lecture \in -DurationTolerance..DurationTolerance
LectureRows(rows) == { j \in 1..Len(rows) : rows[j].session_type = "Lecture" }
\* the branch/semester generate_all schedules first, into the empty ledger
FirstCohort == KeyOf(Cohorts(courses_given)[1])

\* C23: when a run over a single core course with 3 lecture hours, an
\* adequate room and lecture slots on two days has ended, the list of the
\* branch/semester scheduled first holds exactly two lecture rows, both
\* placed, on two different days, whatever orders the shuffles produced.
C23_TwoLecturesTwoDays ==
  (pc = "done" /\ SingleCoreCourseRun) =>
    \E rows \in { result[FirstCohort] } :
      /\ Cardinality(LectureRows(rows)) = 2
      /\ \A j \in LectureRows(rows) : rows[j].Day \in Range(config.working_days)
      /\ \A j1, j2 \in LectureRows(rows) : j1 # j2 => rows[j1].Day # rows[j2].Day

\* C23 case: such a run has ended with the two lectures at the first lecture
\* slot of Monday and of Tuesday.
C23_Witness ==
  /\ pc = "done"
  /\ SingleCoreCourseRun
  /\ \E rows \in { result[FirstCohort] } : \E j1, j2 \in LectureRows(rows) :
       /\ rows[j1].Day = "Monday" /\ rows[j2].Day = "Tuesday"
       /\ rows[j1].Slot = config.lecture_slots[1]
       /\ rows[j2].Slot = config.lecture_slots[1]

\* a table of two core courses of one named member of staff, each needing
\* one lecture, under a configuration with one day and one lecture slot of a
\* lecture's length, with a room large enough for either
TwoCoursesOneSlotRun ==
  /\ Len(courses_given) = 2
  /\ \A i \in 1..2 :
       /\ row_type(courses_given[i]) = "core"
       /\ \E h \in { _parse_ltpsc(courses_given[i].LTPSC) } :
            _slots_needed(h[1], h[2], h[3]) = <<1, 0, 0>>
       /\ \E r \in Range(classrooms) : r.capacity >= _to_int(courses_given[i].Strength, 0)
  /\ strip(courses_given[1].Faculty) = strip(courses_given[2].Faculty)
  /\ strip(courses_given[1].Faculty) # ""
  /\ Len(config.working_days) = 1
  /\ Len(config.lecture_slots) = 1
  /\ duration_ok(slot_to_range(config.lecture_slots[1]), durations.Lecture)
\* the branch/semesters that hold both courses
HoldingBoth == { c \in GivenCohorts : Len(c.rows) = 2 }
PlacedIn(k) == { j \in 1..Len(result[k]) : result[k][j].Day # UNSCHEDULED }
\* the bookings of the two courses' member of staff in the one lecture slot
BookingsInTheSlot ==
  UNION { { <<d, i>> : i \in { e \in Entries(d) :
                                 /\ bookings[d][e].faculty = strip(courses_given[1].Faculty)
                                 /\ bookings[d][e].slot = config.lecture_slots[1] } } :
          d \in LedgerDays }

\* C24 (as the specification states it): when such a run has ended, in every
\* branch/semester that holds the two courses exactly one of the two
\* lectures is placed and the other is an UNSCHEDULED row, and the member of
\* staff holds at most one booking in the slot.
C24_ExactlyOnePlaced ==
  (pc = "done" /\ TwoCoursesOneSlotRun) =>
    /\ \A c \in HoldingBoth :
         /\ Len(result[KeyOf(c)]) = 2
         /\ Cardinality(PlacedIn(KeyOf(c))) = 1
    /\ Cardinality(BookingsInTheSlot) <= 1

\* C24 (amended): when such a run has ended, exactly one lecture of the two
\* courses is placed in the whole run, in the branch/semester scheduled
\* first, and every other one, of the same branch/semester or of another one
\* that holds the courses too, is an UNSCHEDULED row; the member of staff
\* holds exactly one booking in the slot, at every moment at most one.
C24_OnePlacedInTheRun ==
  TwoCoursesOneSlotRun =>
    /\ Cardinality(BookingsInTheSlot) <= 1
    /\ pc = "done" =>
         /\ Cardinality(BookingsInTheSlot) = 1
         /\ \A c \in GivenCohorts :
              /\ Len(result[KeyOf(c)]) = Len(c.rows)
              /\ Cardinality(PlacedIn(KeyOf(c))) =
                   IF KeyOf(c) = FirstCohort THEN 1 ELSE 0

\* C24 case: such a run has ended; the branch/semester scheduled first holds
\* both courses, one placed in the slot and one UNSCHEDULED, and a later
\* branch/semester holds both as UNSCHEDULED rows.
C24_Witness ==
  /\ pc = "done"
  /\ TwoCoursesOneSlotRun
  /\ \E c1, c2 \in HoldingBoth :
       /\ KeyOf(c1) = FirstCohort
       /\ Cardinality(PlacedIn(KeyOf(c1))) = 1
       /\ KeyOf(c2) # FirstCohort
       /\ PlacedIn(KeyOf(c2)) = {}

\* the checks of a candidate (day, slot), read off the ledger declaratively
CohortFreeAt(day, rng) ==
  \A i \in 1..Len(cohort_days[day]) : ~Overlapping(cohort_days[day][i], rng)
FacultyFreeAt(fac, day, rng) ==
  fac = "" \/ \A i \in Entries(day) :
                 bookings[day][i].faculty = fac => ~Overlapping(bookings[day][i].range, rng)
RoomFreeAt(name, day, rng) ==
  \A i \in 1..Len(RoomBookings(rooms_state, name)) :
    RoomBookings(rooms_state, name)[i].day = day
      => ~Overlapping(RoomBookings(rooms_state, name)[i].range, rng)
\* the allocator has a room to return: one that is large enough and free
RoomAt(strength, day, rng) ==
  \E r \in Range(classrooms) : r.capacity >= strength /\ RoomFreeAt(r.name, day, rng)
LengthFits(rng, expected) == Minutes(rng) - expected \in -DurationTolerance..DurationTolerance

\* the positions of the days and of the slots of a pool
DayNos == 1..Len(config.working_days)
SlotNos(pool) == 1..Len(pool)
\* the order of a search "for day in days: for slot in pool": pair (d1, s1)
\* is visited before pair (d2, s2)
Earlier(d1, s1, d2, s2) == d1 < d2 \/ (d1 = d2 /\ s1 < s2)

\* the pair of day d and lab slot n passes the cohort, faculty and room
\* checks, and, where with_length is set, has the length of a lab
LabPairPasses(d, n, lab, with_length) ==
  \E day \in { config.working_days[d] }, rng \in { slot_to_range(config.lab_slots[n]) } :
    /\ CohortFreeAt(day, rng)
    /\ FacultyFreeAt(lab.faculty, day, rng)
    /\ RoomAt(lab.strength, day, rng)
    /\ with_length => LengthFits(rng, durations.Lab)
\* the step of the core-lab phase commits the first passing pair, or appends
\* an UNSCHEDULED row when no pair passes
LabAtFirstPassing(with_length) ==
  pc = "core_labs" =>
    \E lab \in { Head(work) }, row \in { timetable_rows'[Len(timetable_rows')] } :
      /\ Len(timetable_rows') = Len(timetable_rows) + 1
      /\ row.code = lab.code /\ row.session_type = "Lab"
      /\ row.Day # UNSCHEDULED =>
           \E d \in DayNos, n \in SlotNos(config.lab_slots) :
             /\ config.working_days[d] = row.Day /\ config.lab_slots[n] = row.Slot
             /\ LabPairPasses(d, n, lab, with_length)
             /\ \A d0 \in DayNos, n0 \in SlotNos(config.lab_slots) :
                  Earlier(d0, n0, d, n) => ~LabPairPasses(d0, n0, lab, with_length)
             /\ row.Room = _choose_room_for_session(classrooms, rooms_state, row.Day,
                                slot_to_range(row.Slot), TRUE, lab.strength, {}).name
             /\ Len(bookings'[row.Day]) = Len(bookings[row.Day]) + 1
      /\ row.Day = UNSCHEDULED <=>
           \A d \in DayNos, n \in SlotNos(config.lab_slots) : ~LabPairPasses(d, n, lab, with_length)

\* C25 (as the specification states it): a core lab is committed at the first
\* (day, lab slot) pair, in configured day order then lab-slot order, at
\* which the cohort is free, the faculty is free and the allocator returns a
\* room, against the ledger of that moment; every earlier pair failed one of
\* these three checks, and the lab is UNSCHEDULED in phase 1 only if every
\* pair fails one of them.
C25_LabAtFirstFreePair == [][ LabAtFirstPassing(FALSE) ]_vars

\* C25 (amended): the same with a fourth check, made first: the length of the
\* slot is within 5 minutes of the 120 minutes of a lab. A pair whose slot
\* has another length is passed over although cohort, faculty and a room are
\* free.
C25_LabAtFirstFittingPair == [][ LabAtFirstPassing(TRUE) ]_vars

\* C25 case: the core-lab phase has committed a lab on the second day, every
\* pair of the first day having failed a check.
C25_Witness ==
  /\ pc \in {"core_labs", "core_lectures", "core_tutorials"}
  /\ timetable_rows # <<>>
  /\ \E row \in { timetable_rows[Len(timetable_rows)] } :
       /\ row.session_type = "Lab"
       /\ row.Day = config.working_days[2]

\* the slot pool of a session kind
PoolOf(kind) ==
  IF kind = "Lecture" THEN config.lecture_slots
  ELSE IF kind = "Tutorial" THEN config.tutorial_slots
  ELSE IF kind = "Lab" THEN config.lab_slots
  ELSE config.minor_slots
\* the course of the current branch/semester has a 'Lecture' booking that day
LectureThatDay(code, day) ==
  \E i \in Entries(day) :
    /\ bookings[day][i].branch = branch_name /\ bookings[day][i].sem = sem
    /\ bookings[day][i].course = code /\ bookings[day][i].type = "Lecture"
\* the pair of day d and slot n of the pool passes the five checks of the
\* salvage scan; a minor has no expected length, its duration check passes
\* for every slot
SalvagePairPasses(d, n, s) ==
  \E day \in { config.working_days[d] },
     rng \in { slot_to_range(PoolOf(s.session_type)[n]) } :
    /\ s.session_type # "Minor" => LengthFits(rng, ExpectedMinutes(s.session_type))
    /\ CohortFreeAt(day, rng)
    /\ s.session_type = "Lecture" => ~LectureThatDay(s.code, day)
    /\ FacultyFreeAt(s.faculty, day, rng)
    /\ RoomAt(s.strength, day, rng)

\* C26: a step of the salvage pass places its session at the first (day,
\* slot) pair, in configured day order then the order of the slot pool of its
\* kind, that passes the duration, cohort, same-day-lecture, faculty and room
\* checks against the ledger before the step, in the room the allocator
\* returns; it gives the session up exactly when no pair passes; and the step
\* has one outcome only, no random choice enters it.
C26_SalvageFirstPair ==
  [][ (pc = "salvage" /\ work # <<>>) =>
        \E s \in { Head(work) } :
          /\ \/ /\ Len(placed_rows') = Len(placed_rows) + 1
                /\ still_unscheduled' = still_unscheduled
                /\ \E row \in { placed_rows'[Len(placed_rows')] } :
                   \E d \in DayNos, n \in SlotNos(PoolOf(s.session_type)) :
                     /\ config.working_days[d] = row.Day
                     /\ PoolOf(s.session_type)[n] = row.Slot
                     /\ SalvagePairPasses(d, n, s)
                     /\ \A d0 \in DayNos, n0 \in SlotNos(PoolOf(s.session_type)) :
                          Earlier(d0, n0, d, n) => ~SalvagePairPasses(d0, n0, s)
                     /\ row.code = s.code /\ row.session_type = s.session_type
                     /\ row.Room = _choose_room_for_session(classrooms, rooms_state, row.Day,
                                        slot_to_range(row.Slot), s.session_type = "Lab",
                                        s.strength, {}).name
                     /\ Len(bookings'[row.Day]) = Len(bookings[row.Day]) + 1
             \/ /\ still_unscheduled' = Append(still_unscheduled, s)
                /\ placed_rows' = placed_rows
                /\ bookings' = bookings
                /\ \A d \in DayNos, n \in SlotNos(PoolOf(s.session_type)) :
                     ~SalvagePairPasses(d, n, s)
          /\ Unique(Salvage) ]_vars

\* C26 case: the salvage pass has placed a lecture on the second day, in the
\* second slot of the lecture pool: the pairs of the first day and the first
\* slot of the pool had failed a check.
C26_Witness ==
  /\ pc = "salvage"
  /\ placed_rows # <<>>
  /\ \E row \in { placed_rows[Len(placed_rows)] } :
       /\ row.session_type = "Lecture"
       /\ row.Day = config.working_days[2]
       /\ row.Slot = config.lecture_slots[2]

\* the grouped searches: the courses of the group being placed, the type of
\* the entries it commits and the label of its rows
GroupPhases == {"elective_lectures", "elective_tutorials", "minors"}
GroupMembers ==
  IF pc = "elective_lectures" THEN SelectSeq(elective_info, LAMBDA e : e.L_slots >= idx)
  ELSE IF pc = "elective_tutorials" THEN SelectSeq(elective_info, LAMBDA e : e.T_slots >= idx)
  ELSE [ i \in 1..Len(minors) |-> session_of(minors[i]) ]
GroupType ==
  IF pc = "elective_lectures" THEN "Elective-Lecture"
  ELSE IF pc = "elective_tutorials" THEN "Elective-Tutorial"
  ELSE "Minor"
GroupLabels == {"Elective Lecture", "Elective Tutorial", "Minor"}
\* the rows a step appends
NewRows == SubSeq(timetable_rows', Len(timetable_rows) + 1, Len(timetable_rows'))
\* the entry a commit of course e at (day, slot) in the room makes
EntryOf(e, day, slot, room) ==
  [ slot |-> slot, range |-> slot_to_range(slot), room |-> room, faculty |-> e.faculty,
    branch |-> branch_name, sem |-> sem, course |-> e.code, type |-> GroupType, day |-> day ]
\* the step booked the whole group at (day, slot), in the rooms of its rows
GroupBooked(needs, new, day, slot) ==
  \E made \in { [ i \in 1..Len(needs) |-> EntryOf(needs[i], day, slot, new[i].Room) ] } :
    /\ \A i \in 1..Len(needs) :
         /\ new[i].Day = day /\ new[i].Slot = slot
         /\ FacultyFreeAt(needs[i].faculty, day, slot_to_range(slot))
         /\ RoomFreeAt(new[i].Room, day, slot_to_range(slot))
         /\ \A j \in 1..Len(needs) : i # j => new[i].Room # new[j].Room
    /\ bookings' = [bookings EXCEPT ![day] = @ \o made]
    /\ \A r \in DOMAIN rooms_state' :
         rooms_state'[r] = RoomBookings(rooms_state, r) \o SelectSeq(made, LAMBDA b : b.room = r)
    /\ student_bookings' =
         [student_bookings EXCEPT ![<<branch_name, sem>>][day] = Append(@, slot_to_range(slot))]
\* the rows of one group are all at one (day, slot), or all UNSCHEDULED
GroupsTogether(rows) ==
  \A i, j \in 1..Len(rows) :
    ( /\ rows[i].Course.label \in GroupLabels
      /\ rows[i].Course.label = rows[j].Course.label
      /\ rows[i].Course.n = rows[j].Course.n )
    => rows[i].Day = rows[j].Day /\ rows[i].Slot = rows[j].Slot

\* C27: a grouped elective or minor search is all-or-nothing. Its step
\* appends one row per course of the group; either every row is UNSCHEDULED
\* and the ledger, the room index, the cohort bookings and the presence set
\* are exactly as before, or every row is at one (day, slot), at which every
\* course passed its faculty and room check, and the step added exactly one
\* booking per course at that (day, slot), each in a room of its own, and
\* one range to the cohort; and in the rows of the main phases every group
\* is entirely at one (day, slot) or entirely UNSCHEDULED.
C27_GroupAllOrNothing ==
  [][ /\ pc \in GroupPhases =>
           \E needs \in { GroupMembers }, new \in { NewRows } :
             /\ Len(new) = Len(needs)
             /\ \A i \in 1..Len(needs) : new[i].code = needs[i].code
             /\ \/ /\ \A i \in 1..Len(new) : new[i].Day = UNSCHEDULED
                   /\ UNCHANGED ledger_vars
                \/ \E day \in Range(config.working_days), slot \in SlotLabels :
                     GroupBooked(needs, new, day, slot)
      /\ GroupsTogether(timetable_rows)
      /\ GroupsTogether(timetable_rows') ]_vars

\* C27 case: a group of two courses stands placed at one (day, slot) in two
\* rooms, while an earlier group of the run, of another branch/semester,
\* holds the same member of staff at another (day, slot).
C27_Witness ==
  \E i, j \in 1..Len(timetable_rows) :
    /\ i # j
    /\ timetable_rows[i].Course.label \in GroupLabels
    /\ timetable_rows[i].Course.label = timetable_rows[j].Course.label
    /\ timetable_rows[i].Course.n = timetable_rows[j].Course.n
    /\ timetable_rows[i].Day # UNSCHEDULED
    /\ timetable_rows[i].Room # timetable_rows[j].Room
    /\ \E d \in LedgerDays : \E e \in Entries(d) :
         /\ bookings[d][e].type \in GroupTypes
         /\ bookings[d][e].branch # branch_name
         /\ bookings[d][e].faculty = timetable_rows[i].Faculty
         /\ <<d, bookings[d][e].slot>> # <<timetable_rows[i].Day, timetable_rows[i].Slot>>

\* the configured pool of an entry type of the ledger
PoolOfType(type) ==
  IF type \in {"Lecture", "Elective-Lecture"} THEN Range(config.lecture_slots)
  ELSE IF type \in {"Tutorial", "Elective-Tutorial"} THEN Range(config.tutorial_slots)
  ELSE IF type = "Lab" THEN Range(config.lab_slots)
  ELSE IF type = "Minor" THEN Range(config.minor_slots)
  ELSE {}

\* C28: every entry of the ledger, whichever phase or the salvage pass made
\* it, sits in a slot of the pool of its kind: a lab in a configured lab
\* slot, a core or elective lecture in a lecture slot, a tutorial in a
\* tutorial slot and a minor in a minor slot, its range being that of the
\* slot; the room index holds no entry that the ledger does not hold.
C28_SlotOfOwnPool ==
  /\ \A d \in LedgerDays : \A i \in Entries(d) :
       /\ bookings[d][i].slot \in PoolOfType(bookings[d][i].type)
       /\ bookings[d][i].range = slot_to_range(bookings[d][i].slot)
  /\ \A r \in DOMAIN rooms_state : \A k \in 1..Len(rooms_state[r]) :
       \E i \in Entries(rooms_state[r][k].day) :
         bookings[rooms_state[r][k].day][i] = rooms_state[r][k]

\* C28 case: the salvage pass has just placed a minor, in a minor slot, into
\* a ledger that holds a lab, a lecture and a tutorial of the main phases.
C28_Witness ==
  /\ pc = "salvage"
  /\ placed_rows # <<>>
  /\ placed_rows[Len(placed_rows)].session_type = "Minor"
  /\ placed_rows[Len(placed_rows)].Slot \in Range(config.minor_slots)
  /\ {"Lab", "Lecture", "Tutorial"} \subseteq
       UNION { { bookings[d][i].type : i \in Entries(d) } : d \in LedgerDays }

\* the checks other than the same-day rule pass for session s in some slot of
\* the pool of its kind on the day
PassesBesidesSameDay(s, day, kind) ==
  \E slot \in Range(PoolOf(kind)) : \E rng \in { slot_to_range(slot) } :
    /\ LengthFits(rng, ExpectedMinutes(kind))
    /\ CohortFreeAt(day, rng)
    /\ FacultyFreeAt(s.faculty, day, rng)
    /\ RoomAt(s.strength, day, rng)
\* the row the step appends is that of the course, on the day
AppendsOn(code, day) ==
  /\ Len(timetable_rows') = Len(timetable_rows) + 1
  /\ timetable_rows'[Len(timetable_rows')].code = code
  /\ timetable_rows'[Len(timetable_rows')].Day = day
\* an entry of the course of the current branch/semester on the day
SessionsThatDay(code, day) ==
  { bookings[day][i].type : i \in { k \in Entries(day) :
       /\ bookings[day][k].branch = branch_name /\ bookings[day][k].sem = sem
       /\ bookings[day][k].course = code } }

\* C29: the same-day rule rejects lectures only, and only for a lecture of
\* the course. Whatever the ledger holds, the rule answers "no conflict" for
\* a tutorial and for a lab; a core tutorial can be committed on every day on
\* which some tutorial slot passes the length, cohort, faculty and room
\* checks, whether or not the course has a lecture that day; a core lecture
\* can be committed on every day without a lecture of the course on which
\* some lecture slot passes them, whether or not the course has a tutorial or
\* a lab that day; and the salvage pass places a tutorial or a lab whenever
\* some pair passes them.
C29_SameDayOnlyForLectures ==
  pc \notin {"idle", "done"} =>
    /\ \A day \in Range(config.working_days), code \in Range(CodeOrder),
          kind \in {"Tutorial", "Lab"} :
         ~_same_course_same_day_conflict(bookings, day, branch_name, sem, code, kind)
    /\ pc = "core_tutorials" =>
         \A n \in 1..Len(work), day \in Range(config.working_days) :
           PassesBesidesSameDay(work[n], day, "Tutorial")
             => ENABLED (CoreTutorial /\ AppendsOn(work[n].code, day))
    /\ pc = "core_lectures" =>
         \A n \in 1..Len(work), day \in Range(config.working_days) :
           (~LectureThatDay(work[n].code, day) /\ PassesBesidesSameDay(work[n], day, "Lecture"))
             => ENABLED (CoreLecture /\ AppendsOn(work[n].code, day))
    /\ (pc = "salvage" /\ work # <<>> /\ Head(work).session_type \in {"Tutorial", "Lab"}) =>
         ( (\E day \in Range(config.working_days) :
              PassesBesidesSameDay(Head(work), day, Head(work).session_type))
           => ENABLED (Salvage /\ Len(placed_rows') = Len(placed_rows) + 1) )

\* C29 case: a course of the branch/semester has a lecture and a tutorial on
\* one day, the tutorial committed after the lecture, and a course has a lab
\* and a lecture on one day, the lecture committed after the lab.
C29_Witness ==
  /\ pc \notin {"idle", "done"}
  /\ \E day \in LedgerDays : \E i, j \in Entries(day) :
       /\ i < j
       /\ bookings[day][i].type = "Lecture" /\ bookings[day][j].type = "Tutorial"
       /\ bookings[day][i].course = bookings[day][j].course
       /\ bookings[day][i].branch = branch_name /\ bookings[day][j].branch = branch_name
       /\ bookings[day][i].sem = sem /\ bookings[day][j].sem = sem
  /\ \E day \in LedgerDays : \E i, j \in Entries(day) :
       /\ i < j
       /\ bookings[day][i].type = "Lab" /\ bookings[day][j].type = "Lecture"
       /\ bookings[day][i].course = bookings[day][j].course
       /\ bookings[day][i].branch = branch_name /\ bookings[day][j].branch = branch_name
       /\ bookings[day][i].sem = sem /\ bookings[day][j].sem = sem


\* two entries of the ledger of different branch/semesters on one day at
\* overlapping times
OverlapAcross(d, i, j) ==
  /\ <<bookings[d][i].branch, bookings[d][i].sem>> # <<bookings[d][j].branch, bookings[d][j].sem>>
  /\ Overlapping(bookings[d][i].range, bookings[d][j].range)
\* such entries are in different rooms and held by different staff
SharedLedgerRespected ==
  \A d \in LedgerDays : \A i, j \in Entries(d) :
    OverlapAcross(d, i, j) =>
      /\ bookings[d][i].room # bookings[d][j].room
      /\ bookings[d][i].faculty = "" \/ bookings[d][i].faculty # bookings[d][j].faculty

\* C30: the cohort bookings are kept per (branch, semester). A step of the
\* run of one branch/semester leaves the bookings of every other
\* branch/semester exactly as they were, so its answer to the cohort-free
\* question does not change; the ledger of rooms and faculty is one for all:
\* sessions of different branch/semesters at overlapping times of a day are
\* in different rooms and held by different members of staff.
C30_CohortNamespaces ==
  [][ pc \notin {"idle", "done"} =>
        /\ \A k \in DOMAIN student_bookings :
             k # <<branch_name, sem>> =>
               k \in DOMAIN student_bookings' /\ student_bookings'[k] = student_bookings[k]
        /\ SharedLedgerRespected
        /\ SharedLedgerRespected' ]_vars

\* the two sections of CSE hold sessions at overlapping times of one day
SectionsOverlap ==
  \E d \in LedgerDays : \E i, j \in Entries(d) :
    /\ OverlapAcross(d, i, j)
    /\ bookings[d][i].branch = "CSE-A" /\ bookings[d][j].branch = "CSE-B"

\* C30 case: two semesters of one branch hold sessions at overlapping times
\* of one day, and the cohort of the earlier semester has a booking then.
C30_Witness ==
  \E d \in LedgerDays : \E i, j \in Entries(d) :
    /\ OverlapAcross(d, i, j)
    /\ bookings[d][i].branch = bookings[d][j].branch
    /\ bookings[d][i].sem # bookings[d][j].sem
    /\ \E k \in DOMAIN student_bookings :
         /\ k = <<bookings[d][i].branch, bookings[d][i].sem>>
         /\ k # <<branch_name, sem>>
         /\ bookings[d][i].range \in Range(student_bookings[k][d])

\* C31: the three indices of the ledger agree in every state between two
\* placements: a booking record is in the list of its day exactly when it
\* is in the list of its room, and a range is in the cohort bookings of a
\* (branch, semester) on a day exactly when the list of that day holds a
\* booking of that branch and semester with that range.
C31_IndicesAgree ==
  /\ \A d \in LedgerDays : \A i \in Entries(d) :
       /\ bookings[d][i].day = d
       /\ bookings[d][i] \in Range(RoomBookings(rooms_state, bookings[d][i].room))
       /\ <<bookings[d][i].branch, bookings[d][i].sem>> \in DOMAIN student_bookings
       /\ bookings[d][i].range
            \in Range(student_bookings[<<bookings[d][i].branch, bookings[d][i].sem>>][d])
  /\ \A r \in DOMAIN rooms_state : \A k \in 1..Len(rooms_state[r]) :
       /\ rooms_state[r][k].room = r
       /\ rooms_state[r][k].day \in LedgerDays
       /\ rooms_state[r][k] \in Range(bookings[rooms_state[r][k].day])
  /\ \A key \in DOMAIN student_bookings : \A d \in DOMAIN student_bookings[key] :
       \A n \in 1..Len(student_bookings[key][d]) :
         \E i \in Entries(d) :
           /\ bookings[d][i].branch = key[1] /\ bookings[d][i].sem = key[2]
           /\ bookings[d][i].range = student_bookings[key][d][n]

\* C31 case: the salvage pass has just placed a session on a day that held
\* a booking of the branch/semester already: its record ends the list of the
\* day and its range the cohort bookings of the day.
C31_Witness ==
  /\ pc = "salvage"
  /\ placed_rows # <<>>
  /\ \E row \in { placed_rows[Len(placed_rows)] } :
       /\ Len(cohort_days[row.Day]) >= 2
       /\ cohort_days[row.Day][Len(cohort_days[row.Day])] = slot_to_range(row.Slot)
       /\ bookings[row.Day][Len(bookings[row.Day])].room = row.Room
       /\ bookings[row.Day][Len(bookings[row.Day])].course = row.code

\* C32: for a lab request, when some lab-typed room of the catalog has the
\* capacity, is free in the range and is not excluded, the allocator returns
\* a lab-typed room, of the least capacity among those, whatever rooms of
\* other types are free; it returns a room of another type for a lab only
\* when no lab-typed room qualifies.
C32_LabRoomPreferred ==
  (Asked /\ last_choice.is_lab) =>
    /\ (\E r \in Catalog : LabTyped(r) /\ Adequate(r)) =>
         /\ last_choice.answer \in Catalog
         /\ LabTyped(last_choice.answer)
         /\ Adequate(last_choice.answer)
         /\ \A r \in Catalog :
              (LabTyped(r) /\ Adequate(r)) => last_choice.answer.capacity <= r.capacity
    /\ (last_choice.answer # NoRoom /\ ~LabTyped(last_choice.answer)) =>
         ~\E r \in Catalog : LabTyped(r) /\ Adequate(r)

\* C32 case: a lab request was given a lab-typed room while a smaller room of
\* another type had the capacity, was free and was not excluded.
C32_Witness ==
  /\ Asked
  /\ last_choice.is_lab
  /\ last_choice.answer # NoRoom
  /\ LabTyped(last_choice.answer)
  /\ \E r \in Catalog :
       ~LabTyped(r) /\ Adequate(r) /\ r.capacity < last_choice.answer.capacity

\* the strength the course table states for a course, and the capacities of
\* the rooms of the run that carry a name
StrengthOf(code) ==
  { _to_int(courses_given[i].Strength, 0) :
      i \in { k \in 1..Len(courses_given) : courses_given[k].Code = code } }
CapacitiesOf(name) ==
  { classrooms[i].capacity : i \in { k \in 1..Len(classrooms) : classrooms[k].name = name } }

\* C33: in every state of a run, every booking of the ledger, whichever
\* phase or the salvage pass made it, is in a room of the catalog of the run
\* whose capacity is at least the strength the course table states for the
\* booked course.
C33_RoomLargeEnough ==
  \A d \in LedgerDays : \A i \in Entries(d) :
    /\ CapacitiesOf(bookings[d][i].room) # {}
    /\ StrengthOf(bookings[d][i].course) # {}
    /\ \A cap \in CapacitiesOf(bookings[d][i].room), n \in StrengthOf(bookings[d][i].course) :
         cap >= n

\* C33 case: the salvage pass has placed a session in a room of the catalog
\* while a room too small for it had no booking at all on that day.
C33_Witness ==
  /\ pc = "salvage"
  /\ placed_rows # <<>>
  /\ \E row \in { placed_rows[Len(placed_rows)] } :
       \E k \in 1..Len(classrooms) :
         /\ classrooms[k].capacity < row.strength
         /\ \A i \in 1..Len(RoomBookings(rooms_state, classrooms[k].name)) :
              RoomBookings(rooms_state, classrooms[k].name)[i].day # row.Day

\* the codes of the elective courses of the table
ElectiveCodes ==
  { courses_given[i].Code : i \in { k \in 1..Len(courses_given) :
                                       row_type(courses_given[k]) = "elective" } }
\* the types of the entries of lecture sessions of an elective: committed
\* with its group, or by the salvage pass
ElectiveLectureTypes == {"Elective-Lecture", "Lecture"}

\* C34: no elective course holds two lecture bookings of one branch and
\* semester on one day, whether the bookings were committed with a group of
\* the elective lecture phase or by the salvage pass.
C34_ElectiveLecturesOnDifferentDays ==
  \A d \in LedgerDays : \A i, j \in Entries(d) :
    ( /\ i # j
      /\ bookings[d][i].course \in ElectiveCodes
      /\ bookings[d][i].course = bookings[d][j].course
      /\ bookings[d][i].branch = bookings[d][j].branch
      /\ bookings[d][i].sem = bookings[d][j].sem
      /\ bookings[d][i].type \in ElectiveLectureTypes )
    => bookings[d][j].type \notin ElectiveLectureTypes

\* the codes of the core courses of the table: neither elective nor minor
CoreCodes ==
  { courses_given[i].Code : i \in { k \in 1..Len(courses_given) :
                                       row_type(courses_given[k]) \notin {"elective", "minor"} } }

\* C35: the salvage pass never places a core session. A step of the pass
\* that retries a lab, lecture or tutorial of a core course gives it up (the
\* session goes to the still-unscheduled list, the placed rows and the ledger
\* stay as they are); hence every row the pass has placed is a session of an
\* elective or minor course.
C35_SalvagePlacesNoCoreSession ==
  [][ /\ (pc = "salvage" /\ work # <<>> /\ Head(work).code \in CoreCodes) =>
           /\ still_unscheduled' = Append(still_unscheduled, Head(work))
           /\ placed_rows' = placed_rows
           /\ UNCHANGED ledger_vars
      /\ \A i \in 1..Len(placed_rows') : placed_rows'[i].code \notin CoreCodes ]_vars

\* C35 case: in one salvage pass a session of a failed group has been placed
\* and a core session has been retried and given up.
C35_Witness ==
  /\ pc = "salvage"
  /\ placed_rows # <<>>
  /\ \E i \in 1..Len(still_unscheduled) : still_unscheduled[i].code \in CoreCodes

\* C36: the sessions the salvage pass of a branch/semester has placed are at
\* pairwise non-overlapping ranges on any one day, and a session the pass
\* places overlaps no range that the cohort held before the step; two
\* sessions of a failed group are therefore never placed at one (day, slot).
C36_SalvagedApart ==
  [][ /\ (pc = "salvage" /\ Len(placed_rows') = Len(placed_rows) + 1) =>
           \E row \in { placed_rows'[Len(placed_rows')] } :
             /\ \A n \in 1..Len(cohort_days[row.Day]) :
                  ~Overlapping(cohort_days[row.Day][n], slot_to_range(row.Slot))
             /\ slot_to_range(row.Slot) \in Range(student_bookings'[<<branch_name, sem>>][row.Day])
      /\ \A i, j \in 1..Len(placed_rows') :
           (i # j /\ placed_rows'[i].Day = placed_rows'[j].Day)
             => ~Overlapping(slot_to_range(placed_rows'[i].Slot),
                             slot_to_range(placed_rows'[j].Slot)) ]_vars

\* C36 case: the pass has placed two sessions of one failed group on one day,
\* in different slots.
C36_Witness ==
  /\ pc = "salvage"
  /\ \E i, j \in 1..Len(placed_rows) :
       /\ i # j
       /\ placed_rows[i].session_type = placed_rows[j].session_type
       /\ placed_rows[i].code # placed_rows[j].code
       /\ placed_rows[i].Day = placed_rows[j].Day
       /\ placed_rows[i].Slot # placed_rows[j].Slot

\* the sessions the expander derives from the lecture and tutorial hours of
\* a course row
LectureAndTutorialSessions(r) ==
  LET h == _parse_ltpsc(r.LTPSC)
      n == _slots_needed(h[1], h[2], h[3])
  IN  n[1] + n[2]

\* C37: in the final list of a branch/semester every minor course row has
\* exactly one row, placed or UNSCHEDULED, whatever hours it declares; an
\* elective course row has one row per lecture and tutorial session and none
\* for its lab hours: no row and no ledger entry of an elective is a lab.
C37_MinorOnceElectiveNoLab ==
  /\ \A c \in GivenCohorts :
       KeyOf(c) \in DOMAIN result =>
         \A i \in 1..Len(c.rows) :
           /\ row_type(c.rows[i]) = "minor" =>
                Cardinality(RowsOf(result[KeyOf(c)], c.rows[i].Code)) = 1
           /\ row_type(c.rows[i]) = "elective" =>
                /\ Cardinality(RowsOf(result[KeyOf(c)], c.rows[i].Code))
                     = LectureAndTutorialSessions(c.rows[i])
                /\ \A j \in RowsOf(result[KeyOf(c)], c.rows[i].Code) :
                     result[KeyOf(c)][j].session_type # "Lab"
  /\ \A d \in LedgerDays : \A i \in Entries(d) :
       bookings[d][i].course \in ElectiveCodes => bookings[d][i].type # "Lab"

\* C37 case: a run has ended whose table has a minor course with hours for
\* more than one session and an elective course with lab hours; a final list
\* holds the one row of the minor and the rows of the elective.
C37_Witness ==
  /\ pc = "done"
  /\ \E c \in GivenCohorts : \E i, k \in 1..Len(c.rows) :
       /\ KeyOf(c) \in DOMAIN result
       /\ row_type(c.rows[i]) = "minor"
       /\ ExpectedSessions(c.rows[i]) > 1
       /\ row_type(c.rows[k]) = "elective"
       /\ ExpectedSessions(c.rows[k]) > LectureAndTutorialSessions(c.rows[k])
       /\ RowsOf(result[KeyOf(c)], c.rows[k].Code) # {}

\* C38: for a request that is not for a lab the allocator does not look at
\* the type of a room: it returns a room exactly when some room of the
\* catalog, lab-typed or not, has the capacity, is free in the range and is
\* not excluded, and the room returned is one of least capacity among all
\* of those; a lab-typed room with the capacity is suitable for a lecture.
C38_NoTypeFilterForOthers ==
  (Asked /\ ~last_choice.is_lab) =>
    /\ last_choice.answer = NoRoom <=> ~\E r \in Catalog : Adequate(r)
    /\ last_choice.answer # NoRoom =>
         /\ last_choice.answer \in Catalog
         /\ Adequate(last_choice.answer)
         /\ \A r \in Catalog : Adequate(r) => last_choice.answer.capacity <= r.capacity
    /\ \A r \in Catalog :
         (LabTyped(r) /\ r.capacity >= last_choice.strength)
           => is_suitable_for(r, "Lecture", last_choice.strength)

\* C38 case: a request that was not for a lab was given a lab-typed room
\* while a larger room of another type was free, and the room index of the
\* request already held a lecture in a lab-typed room.
C38_Witness ==
  /\ Asked
  /\ ~last_choice.is_lab
  /\ last_choice.answer # NoRoom
  /\ LabTyped(last_choice.answer)
  /\ \E r \in Catalog : ~LabTyped(r) /\ Adequate(r)
  /\ \E r \in Catalog :
       /\ LabTyped(r)
       /\ \E i \in 1..Len(RoomBookings(last_choice.rs, r.name)) :
            RoomBookings(last_choice.rs, r.name)[i].type = "Lecture"

\* a lab request found the one lab-typed room with the capacity taken, in an
\* overlapping range, by a lecture, and was given a room of another type
LabDisplacedByLecture ==
  /\ Asked
  /\ last_choice.is_lab
  /\ last_choice.answer # NoRoom
  /\ ~LabTyped(last_choice.answer)
  /\ \E r \in Catalog :
       /\ LabTyped(r) /\ r.capacity >= last_choice.strength
       /\ \E i \in 1..Len(RoomBookings(last_choice.rs, r.name)) :
            /\ RoomBookings(last_choice.rs, r.name)[i].type = "Lecture"
            /\ RoomBookings(last_choice.rs, r.name)[i].day = last_choice.day
            /\ Overlapping(RoomBookings(last_choice.rs, r.name)[i].range, last_choice.range)

\* the branch/semester a row of a replayed table is handed to
BranchSemesterOf(r) ==
  << IF r.Department = "CSE" THEN (IF r.Section = "A" THEN "CSE-A" ELSE "CSE-B")
     ELSE r.Department,
     r.Semester[1] >>

\* branch/semester a is processed before b: by department in alphabetical
\* order, then by semester, then CSE-A before CSE-B
ProcessedBefore(a, b) ==
  LET place == [ d \in {"ALL", "CSE", "CSE-A", "CSE-B", "DSAI", "ECE"} |->
                   IF d = "ALL" THEN 1 ELSE IF d = "DSAI" THEN 3 ELSE IF d = "ECE" THEN 4 ELSE 2 ]
  IN  \/ place[a[1]] < place[b[1]]
      \/ place[a[1]] = place[b[1]] /\ a[2] < b[2]
      \/ place[a[1]] = place[b[1]] /\ a[2] = b[2] /\ a[1] = "CSE-A" /\ b[1] = "CSE-B"

\* the two tables of the replayed calls differ only in courses of
\* branch/semesters processed after k
OnlyLaterCoursesDiffer(k) ==
  \A i \in 1..Len(last_call.args[1]) :
     last_call.args[1][i] # last_call.args[3][i]
       => /\ ProcessedBefore(k, BranchSemesterOf(last_call.args[1][i]))
          /\ ProcessedBefore(k, BranchSemesterOf(last_call.args[3][i]))

\* C39: branch/semesters are scheduled one after another, departments in
\* sorted order, semesters ascending within a department, CSE-A before CSE-B:
\* a call starts on an empty ledger and an empty result; a step of a
\* branch/semester changes the student list of that branch/semester only and
\* no stored list; the step that stores a list stores it under a
\* branch/semester processed after all stored ones, and hands the ledger on
\* unchanged. And when a second call with the same random choices ends, whose
\* table differs from the first call's only in courses of branch/semesters
\* processed after k, the rows stored for k are the rows the first call stored.
C39_LaterCoursesDoNotMatter ==
  [][ /\ (pc \in {"idle", "done"} /\ pc' \notin {"idle", "done"})
           => /\ result' = <<>>
              /\ \A d \in DOMAIN bookings' : bookings'[d] = <<>>
              /\ \A r \in DOMAIN rooms_state' : rooms_state'[r] = <<>>
              /\ \A k \in DOMAIN student_bookings' : \A d \in DOMAIN student_bookings'[k] :
                    student_bookings'[k][d] = <<>>
      /\ pc \notin {"idle", "done"}
           => /\ \A k \in DOMAIN result : k \in DOMAIN result' /\ result'[k] = result[k]
              /\ \A k \in DOMAIN result' \ DOMAIN result :
                    /\ k = <<Head(todo).branch, Head(todo).sem>>
                    /\ todo' = Tail(todo)
                    /\ \A k2 \in DOMAIN result : ProcessedBefore(k2, k)
                    /\ \A j \in 1..Len(todo') :
                          ProcessedBefore(k, <<todo'[j].branch, todo'[j].sem>>)
                    /\ bookings' = bookings
                    /\ rooms_state' = rooms_state
                    /\ \A k2 \in DOMAIN student_bookings :
                          k2 \in DOMAIN student_bookings' /\ student_bookings'[k2] = student_bookings[k2]
              /\ DOMAIN result' = DOMAIN result
                    => /\ todo' = todo
                       /\ \A k \in DOMAIN student_bookings :
                             k # <<Head(todo).branch, Head(todo).sem>>
                               => student_bookings'[k] = student_bookings[k]
      /\ (pc # "done" /\ pc' = "done" /\ last_call.fn = "generate_all" /\ last_call.value # <<>>)
           => \A k \in DOMAIN result' \cap DOMAIN last_call.value[1] :
                 OnlyLaterCoursesDiffer(k) => result'[k] = last_call.value[1][k] ]_vars

\* C39 case: the second of two calls with the same random choices has ended;
\* the tables differ in a course of a later branch/semester taught by a
\* member of staff of an earlier one, whose rows came out the same while the
\* later branch/semester's rows, scheduled around them, did not.
C39_Witness ==
  /\ pc = "done"
  /\ last_call.fn = "generate_all"
  /\ last_call.value # <<>>
  /\ courses_given = last_call.args[3]
  /\ \E k, k2 \in DOMAIN result :
       /\ k \in DOMAIN last_call.value[1]
       /\ OnlyLaterCoursesDiffer(k)
       /\ ProcessedBefore(k, k2)
       /\ ~OnlyLaterCoursesDiffer(k2)
       /\ result[k] = last_call.value[1][k]
       /\ k2 \in DOMAIN last_call.value[1] => result[k2] # last_call.value[1][k2]
       /\ \E i \in 1..Len(result[k]), j \in 1..Len(result[k2]) :
            /\ result[k][i].Day # UNSCHEDULED
            /\ result[k2][j].Day # UNSCHEDULED
            /\ result[k][i].Faculty = result[k2][j].Faculty
            /\ result[k][i].code # result[k2][j].code
====
